---- MODULE Spec2Model ----
(***************************************************************************)
(* A model of the OpenWispr dictation core.                                *)
(*                                                                         *)
(*   Spec          the session orchestrator: start_recording_for_capture,  *)
(*                 the audio callback, the partial-transcription loop and  *)
(*                 stop_recording_for_capture, driven by the hotkey        *)
(*                 machine's sync_recording and by the UI commands.        *)
(*   SpecInjector  paste_text_preserving_clipboard with the clipboard      *)
(*                 snapshot and its restore loop, and the capture of the   *)
(*                 foreground paste target.                                *)
(*   SpecDownload  the download_model command over the whisper and the     *)
(*                 sherpa backend, with the progress events forwarded to   *)
(*                 the UI and the files in the model cache.                *)
(*   SpecCache     concurrent whisper downloads of one model sharing the   *)
(*                 temporary file and the final path in the cache.         *)
(*   SpecDecoder   the whisper backend's transcribe: the decode attempts   *)
(*                 of run_whisper_transcription and what it returns.       *)
(*   SpecHotkeys   the hotkey machine over the stored shortcuts and the    *)
(*                 keyboard's events, with sync_recording's requests.      *)
(*   SpecChord     the hotkey machine with the default shortcuts under     *)
(*                 the Fn and Space keys, with the events logged.          *)
(*   SpecSynthetic the hotkey machine under the user's keys and the paste  *)
(*                 chord the injector sends through the same event tap.    *)
(*   SpecTail      the tail of stop_recording_for_capture: formatting,     *)
(*                 snippets, the paste and the closing events.             *)
(*   SpecParse     parse_shortcut and format_shortcut on shortcut strings. *)
(*   SpecShortcuts the set_shortcuts command over the stored shortcuts.    *)
(*   SpecModels    set_active_model and delete_model side by side.         *)
(*   SpecPrepare   prepare_audio on buffers in every format.               *)
(*   SpecSnippets  apply_snippets applied repeatedly to one text.          *)
(*   SpecProcessor TextProcessor::process with the model's answers.        *)
(*   SpecTarget    the injector with each session's capture of the paste   *)
(*                 target recorded.                                        *)
(*   SpecSlots     the adapter and loaded-model slots under stop tasks,    *)
(*                 the partial loop and a changing active model.           *)
(*   SpecMute      the system audio's mute over a few sessions.            *)
(*   SpecPressRelease  the session orchestrator under the hotkey machine   *)
(*                 alone.                                                  *)
(*   SpecStoreCalls  update_analytics, set_input_device_id and             *)
(*                 set_shortcuts on the settings store at once.            *)
(*                                                                         *)
(* Each specification moves its own variables and leaves the others at     *)
(* rest.  Amplitudes are integers in units of 0.001; buffer lengths are in *)
(* units of 16000 samples; file sizes are in units of 256 KiB.             *)
(*                                                                         *)
(* A cpal stream's drop returns after its callback has stopped, so a       *)
(* dropped stream delivers no further audio.  Each std::sync::Mutex        *)
(* section is one step; the tokio locks on stt_adapter and loaded_model    *)
(* are held from StopInit until the stop task returns.                     *)
(***************************************************************************)
EXTENDS Integers, Sequences, FiniteSets, TLC

\* ------------------------------------------------------------------ bounds
MaxSessions == 2
MaxSamples == 2
MaxStops == 2
MaxPartials == 1

\* ------------------------------------------------------- program constants
\* (16000.0 * 2.0) samples, in units of 16000 samples
PartialMinUnits == 2
\* 0.003 squared, in units of 0.001 squared
SilenceFloorSq == 9

Amplitudes == {0, 4}
Sids == 1..MaxSessions
StopIds == 1..MaxStops
Callers == {"hotkey", "command"}
NoModel == "none"
ActiveModel == "base"

VARIABLES
    \* AudioCapture
    stream,            \* the stream slot: 0 (None) or the session whose stream it holds
    samples,           \* the capture buffer
    stt_adapter,       \* NoModel, or the model the stored adapter was initialised for
    loaded_model,      \* NoModel, or the loaded model's name
    is_recording,
    adapterLock,       \* 0, or the stop task holding stt_adapter and loaded_model
    \* the hotkey machine
    is_recording_active,
    \* cpal streams that have been built and not yet dropped
    openStreams,
    \* tasks
    startPc, startSid,
    stopPc, stopSid,
    partPc, partSnap,
    \* what the UI and the target application have seen, per session
    nextSid,
    samplesOwner,      \* the session whose start last reset the capture buffer
    events,
    outcome,
    decoderCalls,
    injected

sessionVars ==
    <<stream, samples, stt_adapter, loaded_model, is_recording, adapterLock,
      is_recording_active, openStreams, startPc, startSid, stopPc, stopSid,
      partPc, partSnap, nextSid, samplesOwner, events, outcome,
      decoderCalls, injected>>

VARIABLES
    \* the text injector and the foreground-target capture
    platform,          \* "macos" or "windows": the build's target_os
    foreground,        \* the frontmost application: "none", "self" or another
    paste_target,      \* paste_target_slot(): None or Some(target)
    clipboard,         \* the system clipboard, one field per representation
    injPc,
    injText,
    snapshot,          \* the ClipboardSnapshot taken by capture_clipboard
    attempt,           \* restore_clipboard_with_retry's loop variable
    clipBefore,        \* the clipboard when the injector was called
    deliveries         \* what reached an application: <<kind, application>>

injVars ==
    <<platform, foreground, paste_target, clipboard, injPc, injText, snapshot,
      attempt, clipBefore, deliveries>>

VARIABLES
    \* the download_model command and the backends' downloads
    handler,           \* progress_handler_slot(): "none" or the model it forwards
    progress,          \* the model-download-progress events of the last download
    dlPc,
    dlModel,
    dlResult,          \* what adapter.initialize returned
    remote,            \* the size of the remote file being fetched
    total_bytes,       \* Content-Length: 0 for None
    downloaded_bytes,
    last_emitted,
    fileIdx,           \* the index into SHERPA_FILES
    finalFile,         \* per model: the artifact exists at its final path
    tmpFile            \* per model: -1, or the size of the temporary artifact

dlVars ==
    <<handler, progress, dlPc, dlModel, dlResult, remote, total_bytes,
      downloaded_bytes, last_emitted, fileIdx, finalFile, tmpFile>>

VARIABLES
    \* the model cache directory under concurrent whisper downloads
    cachePc,           \* per download task: where it is in download_model
    written,           \* per download task: its downloaded_bytes
    handleOf,          \* per download task: the file its open handle writes to
    files,             \* per file: which of its units have been written
    tmp_path,          \* the file at <model>.download: 0 for none
    output_path        \* the file at the model's final path: 0 for none

cacheVars == <<cachePc, written, handleOf, files, tmp_path, output_path>>

VARIABLES
    \* one transcribe request of the whisper backend
    decPc,             \* where run_whisper_transcription is
    decCaller,         \* who initialized the adapter: "session" or "library"
    config_language,   \* SttConfig.language of the initialized adapter
    calls,             \* the decode_once calls of the request, in order
    decReturn,         \* what transcribe returned: <<>> while running
    transcribes        \* transcribe requests made so far

decVars ==
    <<decPc, decCaller, config_language, calls, decReturn, transcribes>>

VARIABLES
    \* FnHoldState of the hotkey machine (is_recording_active is declared
    \* with the session) and the shortcuts in the settings store
    fn_down, ctrl_down, shift_down, alt_down, meta_down,
    pressed_keys,      \* the key tokens that are down
    is_push_active,
    is_hands_free,
    hold_emitted,      \* the last value sent with fn-hold
    hands_free_combo_prev_active,
    push_to_talk,      \* settings.shortcuts.push_to_talk, parsed
    hands_free_toggle, \* settings.shortcuts.hands_free_toggle, parsed
    requests,          \* what sync_recording has asked of the orchestrator
    keylog             \* the keyboard events of a chord scenario

hkVars ==
    <<fn_down, ctrl_down, shift_down, alt_down, meta_down, pressed_keys,
      is_push_active, is_hands_free, hold_emitted,
      hands_free_combo_prev_active, push_to_talk, hands_free_toggle,
      requests, keylog>>

VARIABLES
    \* the tail of stop_recording_for_capture after transcribe returned Ok
    text_formatting_enabled,   \* settings.text_formatting_enabled
    snippets,                  \* settings.snippets
    fmtPc,             \* where the tail is
    result_text,       \* result.text
    final_text,
    fmtOutcome,        \* how the formatting step ended
    pasted,            \* the text handed to the injector: None before
    uiEvents,          \* the events emitted to the UI by the tail
    tails              \* sessions that have reached the tail so far

fmtVars ==
    <<text_formatting_enabled, snippets, fmtPc, result_text, final_text,
      fmtOutcome, pasted, uiEvents, tails>>

VARIABLES
    \* the shortcut strings of the store
    raw_shortcut,      \* a string handed to parse_shortcut
    parse_result,      \* what parse_shortcut returned for it: None before
    shortcuts,         \* store.settings.shortcuts
    last_set           \* the last call of set_shortcuts: None before any

storeVars == <<raw_shortcut, parse_result, shortcuts, last_set>>

VARIABLES
    \* the set_active_model and delete_model commands
    active_transcription_model,    \* store.settings.active_transcription_model
    delPc,             \* where delete_model is
    delModel,
    delResult,         \* what delete_model returned: "none" while it runs
    setPc,             \* where set_active_model is
    setModel,
    setResult

modelVars ==
    <<active_transcription_model, delPc, delModel, delResult, setPc, setModel,
      setResult>>

VARIABLES
    \* a call of prepare_audio
    audio_data,
    format,
    prepared           \* what prepare_audio returned: None before

prepVars == <<audio_data, format, prepared>>

\* Each of the groups below is moved by one specification.
VARIABLES
    \* apply_snippets applied again and again to one text
    snippet_text,      \* the text to expand
    snippet_list,      \* the snippets
    expansions         \* the results so far, each the expansion of the one before

snipVars == <<snippet_text, snippet_list, expansions>>

VARIABLES
    \* a call of TextProcessor::process
    tp_mode,           \* self.mode
    min_words_for_processing,
    raw_text,
    llm_called,        \* run_prompt was called
    processed          \* what process returned: None before

tpVars ==
    <<tp_mode, min_words_for_processing, raw_text, llm_called,
      processed>>

VARIABLES
    \* what the latest remember_active_paste_target call found
    session_target     \* None when that capture failed or was rejected

tgtVars == <<session_target>>

VARIABLES
    \* the decoder slots of AudioCapture under stop tasks, the partial loop
    \* and a changing active model
    current_model,     \* what models::active_model_value() returns
    adapter_slot,      \* capture.stt_adapter: None, or Some(m) for an adapter
                       \* whose initialize for model m returned Ok
    loaded_slot,       \* capture.loaded_model
    slot_lock,         \* 0, or the task holding both async locks
    slotPc,            \* per stop task: where it is after the silence test
    target_model,      \* per stop task: its local target_model
    slot_result,       \* per stop task: how its last run ended
    transcribed,       \* per stop task: None, or Some(<<m, t>>): transcribe was
                       \* called on an adapter initialised for m, the target t
    partialPc,         \* the partial loop's run_partial_transcription
    partial_target,
    partial_on         \* the same for the partial loop's latest transcribe

slotVars ==
    <<current_model, adapter_slot, loaded_slot, slot_lock,
      slotPc, target_model, slot_result, transcribed,
      partialPc, partial_target, partial_on>>

VARIABLES
    \* the system audio around the sessions
    mute_system_audio, \* settings.mute_system_audio
    system_muted,      \* the operating system's output mute
    was_system_muted,  \* capture.was_system_muted
    mutePc,            \* "idle", "starting", "recording" or "ended"
    muted_before,      \* the output mute when the session's start was called
    session_end,       \* how the latest session ended
    mute_sessions      \* the sessions started so far

muteVars ==
    <<mute_system_audio, system_muted, was_system_muted, mutePc,
      muted_before, session_end, mute_sessions>>

VARIABLES
    \* the settings store under concurrent callers
    STORE,             \* the AppStore in memory
    store_file,        \* the AppStore in store.json
    callPc,            \* per caller: "idle", "save", "memory" or "done"
    call_store,        \* per caller: its local `store`
    new_device,        \* set_input_device_id's argument
    new_shortcut       \* set_shortcuts' push_to_talk, already well-formed

rmwVars == <<STORE, store_file, callPc, call_store, new_device, new_shortcut>>

lateVars == <<snipVars, tpVars, tgtVars, slotVars, muteVars, rmwVars>>

moreVars == <<fmtVars, storeVars, modelVars, prepVars>>

oldVars == <<sessionVars, injVars, dlVars, cacheVars, decVars, hkVars>>

fmtFrame == <<oldVars, storeVars, modelVars, prepVars, lateVars>>

storeFrame == <<oldVars, fmtVars, modelVars, prepVars, lateVars>>

prepFrame == <<oldVars, fmtVars, storeVars, modelVars, lateVars>>

\* what the model commands leave alone: all but their own variables and the
\* artifacts on disk
modelFrame ==
    <<sessionVars, injVars, cacheVars, decVars, hkVars, fmtVars, storeVars,
      prepVars, lateVars, handler, progress, dlPc, dlModel, dlResult, remote,
      total_bytes, downloaded_bytes, last_emitted, fileIdx, tmpFile>>

\* What the actions of each of these groups leave alone.
snipPeers == <<moreVars, tpVars, tgtVars, slotVars, muteVars, rmwVars>>

snipFrame == <<oldVars, snipPeers>>

tpPeers == <<moreVars, snipVars, tgtVars, slotVars, muteVars, rmwVars>>

tpFrame == <<oldVars, tpPeers>>

tgtPeers == <<moreVars, snipVars, tpVars, slotVars, muteVars, rmwVars>>

tgtFrame == <<oldVars, tgtPeers>>

slotPeers == <<moreVars, snipVars, tpVars, tgtVars, muteVars, rmwVars>>

slotFrame == <<oldVars, slotPeers>>

mutePeers == <<moreVars, snipVars, tpVars, tgtVars, slotVars, rmwVars>>

muteFrame == <<oldVars, mutePeers>>

rmwPeers == <<moreVars, snipVars, tpVars, tgtVars, slotVars, muteVars>>

rmwFrame == <<oldVars, rmwPeers>>

restVars == <<cacheVars, decVars, hkVars, moreVars, lateVars>>

vars == <<sessionVars, injVars, dlVars, restVars>>

\* ----------------------------------------------------------------- helpers
\* create_adapter(): Ok on the targets that have an adapter.
create_adapter_ok == platform \in {"macos", "windows"}

RECURSIVE SumSq(_)
SumSq(s) == IF s = <<>> THEN 0 ELSE Head(s) * Head(s) + SumSq(Tail(s))

\* calculate_rms(samples) < 0.003, with the empty buffer's rms 0.0
RmsBelowFloor(s) ==
    IF s = <<>> THEN TRUE ELSE SumSq(s) < SilenceFloorSq * Len(s)

Emit(s, e) == [events EXCEPT ![s] = Append(@, e)]

Count(s, e) == Cardinality({i \in 1..Len(events[s]) : events[s][i] = e})

Has(s, e) == \E i \in 1..Len(events[s]) : events[s][i] = e

\* -------------------------------------------------------------------- Init
InitSession ==
    /\ stream = 0
    /\ samples = <<>>
    /\ stt_adapter = NoModel
    /\ loaded_model = NoModel
    /\ is_recording = FALSE
    /\ adapterLock = 0
    /\ is_recording_active = FALSE
    /\ openStreams = {}
    /\ startPc = [c \in Callers |-> "idle"]
    /\ startSid = [c \in Callers |-> 0]
    /\ stopPc = [i \in StopIds |-> "idle"]
    /\ stopSid = [i \in StopIds |-> 0]
    /\ partPc = [s \in Sids |-> "none"]
    /\ partSnap = [s \in Sids |-> 0]
    /\ nextSid = 1
    /\ samplesOwner = 0
    /\ events = [s \in Sids |-> <<>>]
    /\ outcome = [s \in Sids |-> "none"]
    /\ decoderCalls = [s \in Sids |-> 0]
    /\ injected = [s \in Sids |-> FALSE]

\* ------------------------------------------- start_recording_for_capture
\* What the hotkey machine's sync_recording stores when start returns.
HotkeyAfterStart(c, ok) ==
    IF c = "hotkey" THEN ok ELSE is_recording_active

\* The sentinel (return Ok(()) when the slot holds a stream), then
\* select_input_device and default_input_config, either of which may fail.
StartCheck(c) ==
    /\ startPc[c] = "idle"
    /\ c = "hotkey" => ~is_recording_active
    /\ IF stream # 0
       THEN /\ is_recording_active' = HotkeyAfterStart(c, TRUE)
            /\ UNCHANGED <<startPc, startSid, nextSid, outcome>>
       ELSE /\ nextSid <= MaxSessions
            /\ nextSid' = nextSid + 1
            /\ \E ok \in BOOLEAN :
                 IF ok
                 THEN /\ startSid' = [startSid EXCEPT ![c] = nextSid]
                      /\ startPc' = [startPc EXCEPT ![c] = "clear"]
                      /\ UNCHANGED <<outcome, is_recording_active>>
                 ELSE /\ outcome' = [outcome EXCEPT ![nextSid] = "device_failed"]
                      /\ is_recording_active' = HotkeyAfterStart(c, FALSE)
                      /\ UNCHANGED <<startPc, startSid>>
    /\ UNCHANGED <<stream, samples, stt_adapter, loaded_model, is_recording,
                   adapterLock, openStreams, stopPc, stopSid, partPc, partSnap,
                   samplesOwner, events, decoderCalls, injected>>
    /\ UNCHANGED <<injVars, dlVars, restVars>>

\* samples.clear(), the capture format, and status=listening.
StartClear(c) ==
    /\ startPc[c] = "clear"
    /\ samples' = <<>>
    /\ samplesOwner' = startSid[c]
    /\ events' = Emit(startSid[c], "listening")
    /\ startPc' = [startPc EXCEPT ![c] = "build"]
    /\ UNCHANGED <<stream, stt_adapter, loaded_model, is_recording, adapterLock,
                   is_recording_active, openStreams, startSid, stopPc, stopSid,
                   partPc, partSnap, nextSid, outcome, decoderCalls, injected>>
    /\ UNCHANGED <<injVars, dlVars, restVars>>

\* *recording = true, then build_input_stream and stream.play(); on Err the
\* built stream is dropped and start returns the error.
StartBuild(c) ==
    /\ startPc[c] = "build"
    /\ is_recording' = TRUE
    /\ \E ok \in BOOLEAN :
         IF ok
         THEN /\ openStreams' = openStreams \cup {startSid[c]}
              /\ startPc' = [startPc EXCEPT ![c] = "store"]
              /\ UNCHANGED <<outcome, is_recording_active, startSid>>
         ELSE /\ startPc' = [startPc EXCEPT ![c] = "idle"]
              /\ startSid' = [startSid EXCEPT ![c] = 0]
              /\ outcome' = [outcome EXCEPT ![startSid[c]] = "stream_failed"]
              /\ is_recording_active' = HotkeyAfterStart(c, FALSE)
              /\ UNCHANGED openStreams
    /\ UNCHANGED <<stream, samples, stt_adapter, loaded_model, adapterLock,
                   stopPc, stopSid, partPc, partSnap, nextSid, samplesOwner,
                   events, decoderCalls, injected>>
    /\ UNCHANGED <<injVars, dlVars, restVars>>

\* stream_lock.stream = Some(stream): the value it replaces is dropped; then
\* the partial-transcription loop is spawned and start returns Ok(()).
StartStore(c) ==
    /\ startPc[c] = "store"
    /\ stream' = startSid[c]
    /\ openStreams' = openStreams \ {stream}
    /\ partPc' = [partPc EXCEPT ![startSid[c]] = "sleep"]
    /\ startPc' = [startPc EXCEPT ![c] = "idle"]
    /\ startSid' = [startSid EXCEPT ![c] = 0]
    /\ is_recording_active' = HotkeyAfterStart(c, TRUE)
    /\ UNCHANGED <<samples, stt_adapter, loaded_model, is_recording,
                   adapterLock, stopPc, stopSid, partSnap, nextSid,
                   samplesOwner, events, outcome, decoderCalls, injected>>
    /\ UNCHANGED <<injVars, dlVars, restVars>>

\* ------------------------------------------------------ the audio callback
\* One callback of stream s: append to the shared buffer, emit audio-level.
AudioCallback(s, a) ==
    /\ s \in openStreams
    /\ Len(samples) < MaxSamples
    /\ Count(s, "level") < MaxSamples
    /\ samples' = Append(samples, a)
    /\ events' = Emit(s, "level")
    /\ UNCHANGED <<stream, stt_adapter, loaded_model, is_recording, adapterLock,
                   is_recording_active, openStreams, startPc, startSid, stopPc,
                   stopSid, partPc, partSnap, nextSid, samplesOwner, outcome,
                   decoderCalls, injected>>
    /\ UNCHANGED <<injVars, dlVars, restVars>>

\* ------------------------------------------------------------ sync_recording
\* The hotkey machine's stop branch (stop_capture spawns the task and
\* is_recording_active becomes false at once) and the stop_recording command.
\* Tasks are interchangeable: a request takes the lowest free task.
StopRequest(i, origin) ==
    /\ stopPc[i] = "idle"
    /\ \A j \in StopIds : j < i => stopPc[j] # "idle"
    /\ IF origin = "hotkey"
       THEN /\ is_recording_active
            /\ startPc["hotkey"] = "idle"
            /\ is_recording_active' = FALSE
       ELSE UNCHANGED is_recording_active
    /\ stopPc' = [stopPc EXCEPT ![i] = "begin"]
    /\ UNCHANGED <<stream, samples, stt_adapter, loaded_model, is_recording,
                   adapterLock, openStreams, startPc, startSid, stopSid, partPc,
                   partSnap, nextSid, samplesOwner, events, outcome,
                   decoderCalls, injected>>
    /\ UNCHANGED <<injVars, dlVars, restVars>>

\* -------------------------------------------- stop_recording_for_capture
StopBegin(i) ==
    /\ stopPc[i] = "begin"
    /\ is_recording' = FALSE
    /\ stopPc' = [stopPc EXCEPT ![i] = "take"]
    /\ UNCHANGED <<stream, samples, stt_adapter, loaded_model, adapterLock,
                   is_recording_active, openStreams, startPc, startSid, stopSid,
                   partPc, partSnap, nextSid, samplesOwner, events, outcome,
                   decoderCalls, injected>>
    /\ UNCHANGED <<injVars, dlVars, restVars>>

\* StopTake with the taken stream kept alive instead of dropped: its callback
\* keeps running after status=processing.
StopTakeKeepsStream(i) ==
    /\ stopPc[i] = "take"
    /\ IF stream = 0
       THEN /\ stopPc' = [stopPc EXCEPT ![i] = "idle"]
            /\ UNCHANGED <<stream, stopSid, events>>
       ELSE /\ stopSid' = [stopSid EXCEPT ![i] = stream]
            /\ stream' = 0
            /\ events' = Emit(stream, "processing")
            /\ stopPc' = [stopPc EXCEPT ![i] = "drain"]
    /\ UNCHANGED <<samples, stt_adapter, loaded_model, is_recording,
                   adapterLock, is_recording_active, openStreams, startPc,
                   startSid, partPc, partSnap, nextSid, samplesOwner, outcome,
                   decoderCalls, injected>>
    /\ UNCHANGED <<injVars, dlVars, restVars>>

\* stream_lock.stream.take(): the taken stream is dropped on the spot; with
\* no stream the function returns, else it emits status=processing.
StopTake(i) ==
    /\ stopPc[i] = "take"
    /\ IF stream = 0
       THEN /\ stopPc' = [stopPc EXCEPT ![i] = "idle"]
            /\ UNCHANGED <<stream, openStreams, stopSid, events>>
       ELSE /\ stopSid' = [stopSid EXCEPT ![i] = stream]
            /\ stream' = 0
            /\ openStreams' = openStreams \ {stream}
            /\ events' = Emit(stream, "processing")
            /\ stopPc' = [stopPc EXCEPT ![i] = "drain"]
    /\ UNCHANGED <<samples, stt_adapter, loaded_model, is_recording,
                   adapterLock, is_recording_active, startPc, startSid, partPc,
                   partSnap, nextSid, samplesOwner, outcome, decoderCalls,
                   injected>>
    /\ UNCHANGED <<injVars, dlVars, restVars>>

\* std::mem::take(samples), the empty test and the silence test.
StopDrain(i) ==
    /\ stopPc[i] = "drain"
    /\ samples' = <<>>
    /\ IF samples = <<>>
       THEN /\ outcome' = [outcome EXCEPT ![stopSid[i]] = "empty"]
            /\ stopPc' = [stopPc EXCEPT ![i] = "idle"]
            /\ stopSid' = [stopSid EXCEPT ![i] = 0]
            /\ UNCHANGED events
       ELSE IF RmsBelowFloor(samples)
       THEN /\ events' = Emit(stopSid[i], "idle")
            /\ outcome' = [outcome EXCEPT ![stopSid[i]] = "silent"]
            /\ stopPc' = [stopPc EXCEPT ![i] = "idle"]
            /\ stopSid' = [stopSid EXCEPT ![i] = 0]
       ELSE /\ stopPc' = [stopPc EXCEPT ![i] = "lock"]
            /\ UNCHANGED <<events, outcome, stopSid>>
    /\ UNCHANGED <<stream, stt_adapter, loaded_model, is_recording, adapterLock,
                   is_recording_active, openStreams, startPc, startSid, partPc,
                   partSnap, nextSid, samplesOwner, decoderCalls, injected>>
    /\ UNCHANGED <<injVars, dlVars, restVars>>

\* Both async locks, then the lazy initialisation of the adapter.  The
\* guards are released when the function returns.
StopInit(i) ==
    /\ stopPc[i] = "lock"
    /\ adapterLock = 0
    /\ IF stt_adapter = NoModel \/ loaded_model # ActiveModel
       THEN \E r \in (IF create_adapter_ok THEN {"ok", "init_failed"}
                                            ELSE {"create_failed"}) :
              CASE r = "ok" ->
                     /\ stt_adapter' = ActiveModel
                     /\ loaded_model' = ActiveModel
                     /\ adapterLock' = i
                     /\ stopPc' = [stopPc EXCEPT ![i] = "transcribe"]
                     /\ UNCHANGED <<outcome, stopSid>>
                [] r = "create_failed" ->
                     /\ outcome' = [outcome EXCEPT ![stopSid[i]] = r]
                     /\ stopPc' = [stopPc EXCEPT ![i] = "idle"]
                     /\ stopSid' = [stopSid EXCEPT ![i] = 0]
                     /\ UNCHANGED <<stt_adapter, loaded_model, adapterLock>>
                [] r = "init_failed" ->
                     /\ stt_adapter' = NoModel
                     /\ loaded_model' = NoModel
                     /\ outcome' = [outcome EXCEPT ![stopSid[i]] = r]
                     /\ stopPc' = [stopPc EXCEPT ![i] = "idle"]
                     /\ stopSid' = [stopSid EXCEPT ![i] = 0]
                     /\ UNCHANGED adapterLock
       ELSE /\ adapterLock' = i
            /\ stopPc' = [stopPc EXCEPT ![i] = "transcribe"]
            /\ UNCHANGED <<stt_adapter, loaded_model, outcome, stopSid>>
    /\ UNCHANGED <<stream, samples, is_recording, is_recording_active,
                   openStreams, startPc, startSid, partPc, partSnap, nextSid,
                   samplesOwner, events, decoderCalls, injected>>
    /\ UNCHANGED <<injVars, dlVars, restVars>>

\* adapter.transcribe.  Err: status=error and return.  Ok: the injector runs
\* synchronously, then transcription-result{is_final=true}, then status=idle.
StopTranscribe(i) ==
    /\ stopPc[i] = "transcribe"
    /\ decoderCalls' = [decoderCalls EXCEPT ![stopSid[i]] = 1]
    /\ \E ok \in BOOLEAN :
         IF ok
         THEN /\ injected' = [injected EXCEPT ![stopSid[i]] = TRUE]
              /\ events' = [events EXCEPT
                              ![stopSid[i]] = Append(Append(@, "final"), "idle")]
              /\ outcome' = [outcome EXCEPT ![stopSid[i]] = "ok"]
         ELSE /\ events' = Emit(stopSid[i], "error")
              /\ outcome' = [outcome EXCEPT ![stopSid[i]] = "transcribe_failed"]
              /\ UNCHANGED injected
    /\ adapterLock' = 0
    /\ stopPc' = [stopPc EXCEPT ![i] = "idle"]
    /\ stopSid' = [stopSid EXCEPT ![i] = 0]
    /\ UNCHANGED <<stream, samples, stt_adapter, loaded_model, is_recording,
                   is_recording_active, openStreams, startPc, startSid, partPc,
                   partSnap, nextSid, samplesOwner>>
    /\ UNCHANGED <<injVars, dlVars, restVars>>

\* ------------------------------------------- the partial-transcription loop
\* while *recording { run_partial_transcription; sleep }: the loop test, then
\* the clone of the buffer when it holds 2.0 s of audio.
PartialPoll(s) ==
    /\ partPc[s] = "sleep"
    /\ IF ~is_recording
       THEN /\ partPc' = [partPc EXCEPT ![s] = "exit"]
            /\ UNCHANGED partSnap
       ELSE IF Len(samples) < PartialMinUnits
       THEN UNCHANGED <<partPc, partSnap>>
       ELSE /\ partPc' = [partPc EXCEPT ![s] = "decode"]
            /\ partSnap' = [partSnap EXCEPT ![s] = samplesOwner]
    /\ UNCHANGED <<stream, samples, stt_adapter, loaded_model, is_recording,
                   adapterLock, is_recording_active, openStreams, startPc,
                   startSid, stopPc, stopSid, nextSid, samplesOwner, events,
                   outcome, decoderCalls, injected>>
    /\ UNCHANGED <<injVars, dlVars, restVars>>

\* run_partial_transcription: both locks, the loaded-model test, transcribe
\* and the is_final=false event, all under the locks.
PartialDecode(s) ==
    /\ partPc[s] = "decode"
    /\ adapterLock = 0
    /\ partPc' = [partPc EXCEPT ![s] = "sleep"]
    /\ partSnap' = [partSnap EXCEPT ![s] = 0]
    /\ IF stt_adapter = NoModel \/ loaded_model # ActiveModel
       THEN UNCHANGED events
       ELSE \E r \in {"error", "empty", "text"} :
              IF r = "text"
              THEN /\ Count(partSnap[s], "partial") < MaxPartials
                   /\ events' = Emit(partSnap[s], "partial")
              ELSE UNCHANGED events
    /\ UNCHANGED <<stream, samples, stt_adapter, loaded_model, is_recording,
                   adapterLock, is_recording_active, openStreams, startPc,
                   startSid, stopPc, stopSid, nextSid, samplesOwner, outcome,
                   decoderCalls, injected>>
    /\ UNCHANGED <<injVars, dlVars, restVars>>

\* ============================================================ the injector
\* Option values: None is the empty tuple, Some(v) the one-element tuple.
None == <<>>

Some(v) == <<v>>

\* Strings are sequences of characters.
OldText == <<"o">>
OldHtml == <<"<", "o", ">">>
OldImage == <<"i">>
OldFiles == <<"f">>

Clip(h, t, i, f) == [html |-> h, text |-> t, image |-> i, files |-> f]

\* What the user may hold on the clipboard: nothing, text, HTML with and
\* without a plain-text alternative, an image, a file list.
Contents ==
    { Clip(None, None, None, None),
      Clip(None, Some(OldText), None, None),
      Clip(Some(OldHtml), Some(OldText), None, None),
      Clip(Some(OldHtml), None, None, None),
      Clip(None, None, Some(OldImage), None),
      Clip(None, None, None, Some(OldFiles)) }

\* The texts a session hands to the injector.
InjTexts == { <<>>, <<" ">>, <<"a">>, <<" ", "a">> }

Applications == {"self", "editor"}

\* text.trim().is_empty()
TrimIsEmpty(t) == \A k \in 1..Len(t) : t[k] = " "

Snap(k, d, a) == [kind |-> k, data |-> d, alt |-> a]

NoSnapshot == Snap("Clear", <<>>, <<>>)

capture_clipboard(cb) ==
    IF cb.html # None
    THEN Snap("Html", cb.html[1], IF cb.text # None THEN cb.text[1] ELSE cb.html[1])
    ELSE IF cb.text # None THEN Snap("Text", cb.text[1], <<>>)
    ELSE IF cb.image # None THEN Snap("Image", cb.image[1], <<>>)
    ELSE IF cb.files # None THEN Snap("FileList", cb.files[1], <<>>)
    ELSE Snap("Clear", <<>>, <<>>)

\* The clipboard after a successful restore_clipboard(snapshot).
restore_clipboard(sn) ==
    CASE sn.kind = "Html"     -> Clip(Some(sn.data), Some(sn.alt), None, None)
      [] sn.kind = "Text"     -> Clip(None, Some(sn.data), None, None)
      [] sn.kind = "Image"    -> Clip(None, None, Some(sn.data), None)
      [] sn.kind = "FileList" -> Clip(None, None, None, Some(sn.data))
      [] OTHER                -> Clip(None, None, None, None)

\* for attempt in 1..=10
RestoreAttempts == 10

InitInjectorAtRest ==
    /\ foreground = "editor"
    /\ paste_target = None
    /\ injPc = "idle"
    /\ injText = <<>>
    /\ snapshot = NoSnapshot
    /\ attempt = 0
    /\ deliveries = <<>>
    /\ clipBefore = clipboard

\* The user brings another application, or none, to the front.
FocusChange(w) ==
    /\ foreground # w
    /\ foreground' = w
    /\ UNCHANGED <<platform, paste_target, clipboard, injPc, injText, snapshot,
                   attempt, clipBefore, deliveries>>
    /\ UNCHANGED <<sessionVars, dlVars, restVars>>

\* The user copies something while no injection runs.
UserCopies(c) ==
    /\ injPc = "idle"
    /\ clipboard # c
    /\ clipboard' = c
    /\ UNCHANGED <<platform, foreground, paste_target, injPc, injText, snapshot,
                   attempt, clipBefore, deliveries>>
    /\ UNCHANGED <<sessionVars, dlVars, restVars>>

\* capture_active_paste_target, called by the hotkey machine's start_capture.
\* macOS: no frontmost process, or the process's own pid, leaves the slot as
\* it is. Windows: only a null foreground window leaves it as it is.
capture_active_paste_target ==
    /\ paste_target' =
          IF platform = "macos"
          THEN IF foreground = "none" \/ foreground = "self"
               THEN paste_target ELSE Some(foreground)
          ELSE IF foreground = "none" THEN paste_target ELSE Some(foreground)
    /\ UNCHANGED <<platform, foreground, clipboard, injPc, injText, snapshot,
                   attempt, clipBefore, deliveries>>
    /\ UNCHANGED <<sessionVars, dlVars, restVars>>

\* restore_active_paste_target: the frontmost application afterwards. Without
\* a stored target nothing moves; with one, the call may fail silently.
FocusAfterRestore(ok) ==
    IF paste_target # None /\ ok THEN paste_target[1] ELSE foreground

\* ---------------------------------------- paste_text_preserving_clipboard
\* InjectBegin testing text.is_empty() without the trim
InjectBeginUntrimmed(t) ==
    /\ injPc = "idle"
    /\ injText' = t
    /\ clipBefore' = clipboard
    /\ deliveries' = <<>>
    /\ snapshot' = NoSnapshot
    /\ attempt' = 0
    /\ injPc' = IF t = <<>> THEN "done" ELSE "open"
    /\ UNCHANGED <<platform, foreground, paste_target, clipboard>>
    /\ UNCHANGED <<sessionVars, dlVars, restVars>>

\* The call: blank text returns Ok at once.
InjectBegin(t) ==
    /\ injPc = "idle"
    /\ injText' = t
    /\ clipBefore' = clipboard
    /\ deliveries' = <<>>
    /\ snapshot' = NoSnapshot
    /\ attempt' = 0
    /\ injPc' = IF TrimIsEmpty(t) THEN "done" ELSE "open"
    /\ UNCHANGED <<platform, foreground, paste_target, clipboard>>
    /\ UNCHANGED <<sessionVars, dlVars, restVars>>

\* InjectOpen returning on a clipboard that cannot be opened, with nothing
\* typed
InjectOpenGivesUp(ok, focusOk) ==
    /\ injPc = "open"
    /\ IF ok
       THEN /\ snapshot' = capture_clipboard(clipboard)
            /\ injPc' = "stage"
            /\ UNCHANGED <<foreground, deliveries>>
       ELSE /\ injPc' = "done"
            /\ UNCHANGED <<foreground, deliveries, snapshot>>
    /\ UNCHANGED <<platform, paste_target, clipboard, injText, attempt, clipBefore>>
    /\ UNCHANGED <<sessionVars, dlVars, restVars>>

\* Clipboard::new(): on failure restore_active_paste_target and
\* insert_text_directly, return Ok; else capture_clipboard.
InjectOpen(ok, focusOk) ==
    /\ injPc = "open"
    /\ IF ok
       THEN /\ snapshot' = capture_clipboard(clipboard)
            /\ injPc' = "stage"
            /\ UNCHANGED <<foreground, deliveries>>
       ELSE /\ foreground' = FocusAfterRestore(focusOk)
            /\ deliveries' = Append(deliveries, <<"typed", foreground'>>)
            /\ injPc' = "done"
            /\ UNCHANGED snapshot
    /\ UNCHANGED <<platform, paste_target, clipboard, injText, attempt, clipBefore>>
    /\ UNCHANGED <<sessionVars, dlVars, restVars>>

\* clipboard.set_text(text): on failure restore_active_paste_target and
\* insert_text_directly, return Ok.
InjectStage(ok, focusOk) ==
    /\ injPc = "stage"
    /\ IF ok
       THEN /\ clipboard' = Clip(None, Some(injText), None, None)
            /\ injPc' = "paste"
            /\ UNCHANGED <<foreground, deliveries>>
       ELSE /\ foreground' = FocusAfterRestore(focusOk)
            /\ deliveries' = Append(deliveries, <<"typed", foreground'>>)
            /\ injPc' = "done"
            /\ UNCHANGED clipboard
    /\ UNCHANGED <<platform, paste_target, injText, snapshot, attempt, clipBefore>>
    /\ UNCHANGED <<sessionVars, dlVars, restVars>>

\* Step 2 in which the chord is sent after the script whatever the script
\* returned.
InjectPasteChordAlways(scriptOk, focusOk) ==
    /\ injPc = "paste"
    /\ IF platform = "macos" /\ paste_target # None /\ scriptOk
       THEN /\ foreground' = paste_target[1]
            /\ deliveries' = deliveries \o <<<<"script", foreground'>>,
                                              <<"chord", foreground'>>>>
       ELSE /\ foreground' = FocusAfterRestore(focusOk)
            /\ deliveries' = Append(deliveries, <<"chord", foreground'>>)
    /\ attempt' = 1
    /\ injPc' = "restore"
    /\ UNCHANGED <<platform, paste_target, clipboard, injText, snapshot, clipBefore>>
    /\ UNCHANGED <<sessionVars, dlVars, restVars>>

\* Step 2. macOS with a stored target: the osascript focus-and-paste, and on
\* its failure restore_active_paste_target and the paste chord; without a
\* target the chord alone. Elsewhere restore_active_paste_target and the
\* chord. Then the sleep before the restore loop.
InjectPaste(scriptOk, focusOk) ==
    /\ injPc = "paste"
    /\ IF platform = "macos" /\ paste_target # None /\ scriptOk
       THEN /\ foreground' = paste_target[1]
            /\ deliveries' = Append(deliveries, <<"script", foreground'>>)
       ELSE /\ foreground' = FocusAfterRestore(focusOk)
            /\ deliveries' = Append(deliveries, <<"chord", foreground'>>)
    /\ attempt' = 1
    /\ injPc' = "restore"
    /\ UNCHANGED <<platform, paste_target, clipboard, injText, snapshot, clipBefore>>
    /\ UNCHANGED <<sessionVars, dlVars, restVars>>

\* One turn of restore_clipboard_with_retry's loop: Clipboard::new() and
\* restore_clipboard; success returns, failure goes to the next attempt, and
\* the loop ends after the last attempt whatever its outcome.
InjectRestore(ok) ==
    /\ injPc = "restore"
    /\ IF ok
       THEN /\ clipboard' = restore_clipboard(snapshot)
            /\ injPc' = "done"
            /\ UNCHANGED attempt
       ELSE /\ UNCHANGED clipboard
            /\ IF attempt < RestoreAttempts
               THEN attempt' = attempt + 1 /\ UNCHANGED injPc
               ELSE injPc' = "done" /\ UNCHANGED attempt
    /\ UNCHANGED <<platform, foreground, paste_target, injText, snapshot,
                   clipBefore, deliveries>>
    /\ UNCHANGED <<sessionVars, dlVars, restVars>>

\* The injector has returned Ok(()) to stop_recording_for_capture.
InjectReturn ==
    /\ injPc = "done"
    /\ injPc' = "idle"
    /\ UNCHANGED <<platform, foreground, paste_target, clipboard, injText,
                   snapshot, attempt, clipBefore, deliveries>>
    /\ UNCHANGED <<sessionVars, dlVars, restVars>>

\* =========================================================== the downloads
\* Sizes and byte counts are in units of 256 KiB.
WhisperModel == "base"
SherpaModel == "sherpa-onnx/parakeet-tdt-0.6b-v3-int8"
Models == {WhisperModel, SherpaModel}

is_sherpa_model_name(m) == m = SherpaModel

\* 256 * 1024 bytes
WhisperEmitDelta == 1
\* 1024 * 1024 bytes
SherpaEmitDelta == 4
\* SHERPA_FILES.len()
SherpaFileCount == 4

EmitDelta(m) == IF is_sherpa_model_name(m) THEN SherpaEmitDelta ELSE WhisperEmitDelta

Progress(st, n, d, e) == [stage |-> st, downloaded_bytes |-> n, done |-> d, error |-> e]

\* emit_model_download_progress: the handler, when one is set, forwards the
\* events of the model it was made for.
Forward(log, m, ev) ==
    IF handler # "none" /\ handler = m THEN Append(log, ev) ELSE log

emit_model_download_progress(m, ev) == Forward(progress, m, ev)

\* is_model_available
is_model_available(m) == finalFile[m]

InitDownloadAtRest ==
    /\ handler = "none"
    /\ progress = <<>>
    /\ dlPc = "idle"
    /\ dlModel = WhisperModel
    /\ dlResult = "none"
    /\ remote = 0
    /\ total_bytes = 0
    /\ downloaded_bytes = 0
    /\ last_emitted = 0
    /\ fileIdx = 0
    /\ finalFile = [m \in Models |-> FALSE]
    /\ tmpFile = [m \in Models |-> -1]

\* The download_model command up to create_adapter: the handler is set and
\* "queued" is emitted.
DownloadCommand(m) ==
    /\ dlPc = "idle"
    /\ handler' = m
    /\ dlModel' = m
    /\ progress' = <<Progress("queued", 0, FALSE, "none")>>
    /\ dlResult' = "none"
    /\ remote' = 0
    /\ total_bytes' = 0
    /\ downloaded_bytes' = 0
    /\ last_emitted' = 0
    /\ fileIdx' = 0
    /\ dlPc' = "create"
    /\ UNCHANGED <<finalFile, tmpFile>>
    /\ UNCHANGED <<sessionVars, injVars, restVars>>

\* create_adapter()?: an error returns from the command as it stands.
CreateAdapter ==
    /\ dlPc = "create"
    /\ IF create_adapter_ok
       THEN dlPc' = "resolve" /\ UNCHANGED dlResult
       ELSE dlPc' = "idle" /\ dlResult' = "create_failed"
    /\ UNCHANGED <<handler, progress, dlModel, remote, total_bytes,
                   downloaded_bytes, last_emitted, fileIdx, finalFile, tmpFile>>
    /\ UNCHANGED <<sessionVars, injVars, restVars>>

\* resolve_model_path / ensure_model_downloaded up to the first request: an
\* artifact already in place is used; the sherpa backend says so with a
\* "ready" event, and otherwise makes a fresh download directory.
ResolveModel(dirOk) ==
    /\ dlPc = "resolve"
    /\ IF is_model_available(dlModel)
       THEN /\ progress' =
                  IF is_sherpa_model_name(dlModel)
                  THEN emit_model_download_progress(dlModel, Progress("ready", 0, TRUE, "none"))
                  ELSE progress
            /\ dlPc' = "load"
            /\ UNCHANGED <<tmpFile, dlResult>>
       ELSE IF is_sherpa_model_name(dlModel)
            THEN IF dirOk
                 THEN /\ tmpFile' = [tmpFile EXCEPT ![dlModel] = 0]
                      /\ dlPc' = "get"
                      /\ UNCHANGED <<progress, dlResult>>
                 ELSE /\ tmpFile' = [tmpFile EXCEPT ![dlModel] = -1]
                      /\ dlResult' = "permission"
                      /\ dlPc' = "finish"
                      /\ UNCHANGED progress
            ELSE /\ dlPc' = "get"
                 /\ UNCHANGED <<progress, tmpFile, dlResult>>
    /\ UNCHANGED <<handler, dlModel, remote, total_bytes, downloaded_bytes,
                   last_emitted, fileIdx, finalFile>>
    /\ UNCHANGED <<sessionVars, injVars, restVars>>

\* The request for one remote file and the creation of its local file.
\* Whisper backend: a failed request emits a done=true event of stage
\* "download"; a granted one emits the starting event, and a failed
\* File::create after it a done=true event of stage "download". Sherpa
\* backend: the file's starting event comes before the request, and failures
\* emit nothing.
RequestFile(res, size, lengthKnown) ==
    /\ dlPc = "get"
    /\ LET start  == Progress("download", 0, FALSE, "none")
           failed == Progress("download", 0, TRUE, res)
       IN  progress' =
             IF is_sherpa_model_name(dlModel)
             THEN emit_model_download_progress(dlModel, start)
             ELSE CASE res = "ok" -> emit_model_download_progress(dlModel, start)
                    [] res = "permission" ->
                         Forward(emit_model_download_progress(dlModel, start),
                                 dlModel, failed)
                    [] OTHER -> emit_model_download_progress(dlModel, failed)
    /\ IF res = "ok"
       THEN /\ remote' = size
            /\ total_bytes' = IF lengthKnown THEN size ELSE 0
            /\ downloaded_bytes' = 0
            /\ last_emitted' = 0
            /\ tmpFile' = IF is_sherpa_model_name(dlModel)
                          THEN tmpFile
                          ELSE [tmpFile EXCEPT ![dlModel] = 0]
            /\ dlPc' = "read"
            /\ UNCHANGED dlResult
       ELSE /\ dlResult' = res
            /\ dlPc' = "finish"
            /\ UNCHANGED <<remote, total_bytes, downloaded_bytes, last_emitted,
                           tmpFile>>
    /\ UNCHANGED <<handler, dlModel, fileIdx, finalFile>>
    /\ UNCHANGED <<sessionVars, injVars, restVars>>

\* One turn of the read loop: reader.read, writer.write_all, the count and
\* the progress event. A read of nothing leaves the loop.
ReadChunk(res) ==
    /\ dlPc = "read"
    /\ res = "disk" => downloaded_bytes < remote
    /\ IF res = "ok"
       THEN IF downloaded_bytes = remote
            THEN /\ dlPc' = "flush"
                 /\ UNCHANGED <<progress, downloaded_bytes, last_emitted,
                                tmpFile, dlResult>>
            ELSE LET n == downloaded_bytes + 1
                     emits == \/ n - last_emitted >= EmitDelta(dlModel)
                              \/ total_bytes # 0 /\ n >= total_bytes
                 IN  /\ downloaded_bytes' = n
                     /\ tmpFile' = [tmpFile EXCEPT ![dlModel] = @ + 1]
                     /\ progress' =
                           IF emits
                           THEN emit_model_download_progress(dlModel,
                                    Progress("download", n, FALSE, "none"))
                           ELSE progress
                     /\ last_emitted' = IF emits THEN n ELSE last_emitted
                     /\ UNCHANGED <<dlPc, dlResult>>
       ELSE /\ progress' =
                  IF is_sherpa_model_name(dlModel)
                  THEN progress
                  ELSE emit_model_download_progress(dlModel,
                           Progress("download", downloaded_bytes, TRUE, res))
            /\ dlResult' = res
            /\ dlPc' = "finish"
            /\ UNCHANGED <<downloaded_bytes, last_emitted, tmpFile>>
    /\ UNCHANGED <<handler, dlModel, remote, total_bytes, fileIdx, finalFile>>
    /\ UNCHANGED <<sessionVars, injVars, restVars>>

\* After the loop: writer.flush and the rename to the final path. Whisper
\* backend: each failure emits a done=true event of stage "download", success
\* a done=true event of stage "ready" with the byte count. Sherpa backend:
\* the next file, and after the last one the rename of the directory and a
\* "ready" event with downloaded_bytes 0.
FinishFile(res) ==
    /\ dlPc = "flush"
    /\ IF is_sherpa_model_name(dlModel)
       THEN IF res = "ok" /\ fileIdx + 1 < SherpaFileCount
            THEN /\ fileIdx' = fileIdx + 1
                 /\ dlPc' = "get"
                 /\ UNCHANGED <<progress, finalFile, tmpFile, dlResult>>
            ELSE IF res = "ok"
            THEN /\ finalFile' = [finalFile EXCEPT ![dlModel] = TRUE]
                 /\ tmpFile' = [tmpFile EXCEPT ![dlModel] = -1]
                 /\ progress' = emit_model_download_progress(dlModel,
                                    Progress("ready", 0, TRUE, "none"))
                 /\ dlPc' = "load"
                 /\ UNCHANGED <<fileIdx, dlResult>>
            ELSE /\ dlResult' = res
                 /\ dlPc' = "finish"
                 /\ UNCHANGED <<progress, fileIdx, finalFile, tmpFile>>
       ELSE IF res = "ok"
            THEN /\ finalFile' = [finalFile EXCEPT ![dlModel] = TRUE]
                 /\ tmpFile' = [tmpFile EXCEPT ![dlModel] = -1]
                 /\ progress' = emit_model_download_progress(dlModel,
                                    Progress("ready", downloaded_bytes, TRUE, "none"))
                 /\ dlPc' = "load"
                 /\ UNCHANGED <<fileIdx, dlResult>>
            ELSE /\ progress' = emit_model_download_progress(dlModel,
                                    Progress("download", downloaded_bytes, TRUE, res))
                 /\ dlResult' = res
                 /\ dlPc' = "finish"
                 /\ UNCHANGED <<fileIdx, finalFile, tmpFile>>
    /\ UNCHANGED <<handler, dlModel, remote, total_bytes, downloaded_bytes,
                   last_emitted>>
    /\ UNCHANGED <<sessionVars, injVars, restVars>>

\* WhisperContext::new_with_params / create_recognizer on the model in place.
LoadModel(ok) ==
    /\ dlPc = "load"
    /\ dlResult' = IF ok THEN "ok" ELSE "load_failed"
    /\ dlPc' = "finish"
    /\ UNCHANGED <<handler, progress, dlModel, remote, total_bytes,
                   downloaded_bytes, last_emitted, fileIdx, finalFile, tmpFile>>
    /\ UNCHANGED <<sessionVars, injVars, restVars>>

\* The lowercase fragments, of those to_user_facing_download_error looks
\* for, that the error string of a failed initialize contains.  A failed
\* request's message quotes the URL, which has the path segment "resolve";
\* a 404 adds "status code 404".
RawError(res) ==
    CASE res = "http404"    -> {"resolve", "404"}
      [] res = "network"    -> {"resolve", "dns"}
      [] res = "permission" -> {"permission denied"}
      [] res = "disk"       -> {"no space"}
      [] OTHER              -> {}

TimedOutMessage == "Download timed out. Please check your connection and retry."
NetworkMessage == "Network error while downloading model. Check internet access and retry."
PermissionMessage == "OpenWispr cannot write model files. Check folder permissions."
DiskFullMessage == "Not enough disk space to download this model."
NotFoundMessage == "Model artifact not found on the remote host. Try again later."
OtherMessage == "Model download failed"

to_user_facing_download_error(raw) ==
    IF "timed out" \in raw \/ "timeout" \in raw THEN TimedOutMessage
    ELSE IF "dns" \in raw \/ "resolve" \in raw \/ "network" \in raw THEN NetworkMessage
    ELSE IF "permission denied" \in raw \/ "access is denied" \in raw THEN PermissionMessage
    ELSE IF "no space" \in raw \/ "disk full" \in raw THEN DiskFullMessage
    ELSE IF "404" \in raw \/ "not found" \in raw THEN NotFoundMessage
    ELSE OtherMessage

\* The command after adapter.initialize: the handler is cleared; Ok emits
\* "ready", Err emits "ready" when the model is available and "error"
\* otherwise, each with downloaded_bytes 0 and done=true.
CommandFinish ==
    /\ dlPc = "finish"
    /\ handler' = "none"
    /\ progress' =
          IF dlResult = "ok" \/ is_model_available(dlModel)
          THEN Append(progress, Progress("ready", 0, TRUE, "none"))
          ELSE Append(progress,
                      Progress("error", 0, TRUE,
                               to_user_facing_download_error(RawError(dlResult))))
    /\ dlPc' = "idle"
    /\ UNCHANGED <<dlModel, dlResult, remote, total_bytes, downloaded_bytes,
                   last_emitted, fileIdx, finalFile, tmpFile>>
    /\ UNCHANGED <<sessionVars, injVars, restVars>>

\* ===================================================== the model cache
\* Two download_model calls for the same whisper model share the temporary
\* path and the final path.  A file is what a path names and what an open
\* handle writes to; a rename moves the name and leaves the handles alone.
MaxDownloads == 2
CacheFileUnits == 2

CacheTasks == 1..MaxDownloads
FileIds == 1..MaxDownloads
Units == 1..CacheFileUnits

EmptyFile == [k \in Units |-> FALSE]

Complete(f) == \A k \in Units : files[f][k]

InitCacheAtRest ==
    /\ cachePc = [t \in CacheTasks |-> "idle"]
    /\ written = [t \in CacheTasks |-> 0]
    /\ handleOf = [t \in CacheTasks |-> 0]
    /\ files = [f \in FileIds |-> EmptyFile]
    /\ tmp_path = 0
    /\ output_path = 0

\* resolve_model_path: a model file in place is returned as it is.
CacheResolve(t) ==
    /\ cachePc[t] = "idle"
    /\ cachePc' = [cachePc EXCEPT ![t] = IF output_path # 0 THEN "done" ELSE "get"]
    /\ UNCHANGED <<written, handleOf, files, tmp_path, output_path>>
    /\ UNCHANGED <<sessionVars, injVars, dlVars, decVars, hkVars, moreVars, lateVars>>

\* The request and File::create(&tmp_path): an existing temporary file is
\* opened and truncated, else a new one is made.
CacheCreate(t, ok) ==
    /\ cachePc[t] = "get"
    /\ IF ok
       THEN LET f == IF tmp_path # 0 THEN tmp_path
                     ELSE CHOOSE g \in FileIds :
                              /\ g # output_path
                              /\ \A u \in CacheTasks : handleOf[u] # g
            IN  /\ tmp_path' = f
                /\ files' = [files EXCEPT ![f] = EmptyFile]
                /\ handleOf' = [handleOf EXCEPT ![t] = f]
                /\ written' = [written EXCEPT ![t] = 0]
                /\ cachePc' = [cachePc EXCEPT ![t] = "write"]
       ELSE /\ cachePc' = [cachePc EXCEPT ![t] = "failed"]
            /\ UNCHANGED <<written, handleOf, files, tmp_path>>
    /\ UNCHANGED output_path
    /\ UNCHANGED <<sessionVars, injVars, dlVars, decVars, hkVars, moreVars, lateVars>>

\* One turn of the read loop: write_all puts the next unit at the handle's
\* own offset; a read of nothing leaves the loop.
CacheWrite(t, ok) ==
    /\ cachePc[t] = "write"
    /\ IF ~ok
       THEN /\ cachePc' = [cachePc EXCEPT ![t] = "failed"]
            /\ UNCHANGED <<written, files>>
       ELSE IF written[t] = CacheFileUnits
            THEN /\ cachePc' = [cachePc EXCEPT ![t] = "rename"]
                 /\ UNCHANGED <<written, files>>
            ELSE /\ files' = [files EXCEPT ![handleOf[t]][written[t] + 1] = TRUE]
                 /\ written' = [written EXCEPT ![t] = @ + 1]
                 /\ UNCHANGED cachePc
    /\ UNCHANGED <<handleOf, tmp_path, output_path>>
    /\ UNCHANGED <<sessionVars, injVars, dlVars, decVars, hkVars, moreVars, lateVars>>

\* flush and std::fs::rename(&tmp_path, output_path): the rename fails when
\* nothing is at the temporary path.
CacheRename(t, ok) ==
    /\ cachePc[t] = "rename"
    /\ IF ok /\ tmp_path # 0
       THEN /\ output_path' = tmp_path
            /\ tmp_path' = 0
            /\ cachePc' = [cachePc EXCEPT ![t] = "done"]
       ELSE /\ cachePc' = [cachePc EXCEPT ![t] = "failed"]
            /\ UNCHANGED <<tmp_path, output_path>>
    /\ UNCHANGED <<written, handleOf, files>>
    /\ UNCHANGED <<sessionVars, injVars, dlVars, decVars, hkVars, moreVars, lateVars>>

\* ------------------------------------------------ run_whisper_transcription
\* Strings are sequences of characters; " " is the whitespace character.
MaxTranscribes == 2
MaxSegments == 2

RECURSIVE TrimStart(_)
TrimStart(t) ==
    IF t # <<>> /\ Head(t) = " " THEN TrimStart(Tail(t)) ELSE t

RECURSIVE TrimEnd(_)
TrimEnd(t) ==
    IF t # <<>> /\ t[Len(t)] = " " THEN TrimEnd(SubSeq(t, 1, Len(t) - 1)) ELSE t

trim(t) == TrimEnd(TrimStart(t))

En == <<"e", "n">>
De == <<"d", "e">>

\* The values of SttConfig.language: none, empty, blank, padded, plain.
LanguageOverrides ==
    {None, Some(<<>>), Some(<<" ">>), Some(<<" ", "d", "e">>), Some(De)}

DecCallers == {"session", "library"}

\* what the decoder may leave in one segment
SegmentTexts == {<<>>, <<" ">>, <<" ", "h", "i">>}

\* the segments of one state.full run
RawOutputs == UNION {[1..n -> SegmentTexts] : n \in 0..MaxSegments}

\* get_lang_str(state.full_lang_id_from_state())
DetectedLanguages == {None, Some(De)}

requested_language(language_override) ==
    IF language_override = None THEN None
    ELSE IF trim(language_override[1]) = <<>> THEN None
    ELSE Some(trim(language_override[1]))

preferred_language(language_override) ==
    IF requested_language(language_override) # None
    THEN requested_language(language_override)
    ELSE Some(En)

RECURSIVE PushAll(_)
PushAll(raw) ==
    IF raw = <<>> THEN <<>> ELSE Head(raw) \o PushAll(Tail(raw))

Transcription(text, language, segments) ==
    [text |-> text, language |-> language, segments |-> segments]

NoTranscription == Transcription(<<>>, None, <<>>)

\* decode_once on a run that left the segments raw; timestamps and the
\* confidence (always None) are left out.
decode_once(raw, language_option, detected) ==
    LET cleaned == [i \in 1..Len(raw) |-> trim(raw[i])]
    IN  Transcription(trim(PushAll(raw)),
                      IF language_option # None THEN language_option ELSE detected,
                      SelectSeq(cleaned, LAMBDA c : c # <<>>))

\* !attempt.text.trim().is_empty() || !attempt.segments.is_empty()
HasOutput(decoded) == trim(decoded.text) # <<>> \/ decoded.segments # <<>>

Running == [kind |-> "running", value |-> NoTranscription]
Ok(t) == [kind |-> "Ok", value |-> t]
Err == [kind |-> "Err", value |-> NoTranscription]

DecodeCall(profile, language_option, result) ==
    [profile |-> profile, language |-> language_option, result |-> result]

InitDecoderAtRest ==
    /\ decPc = "idle"
    /\ decCaller = "none"
    /\ config_language = None
    /\ calls = <<>>
    /\ decReturn = Running
    /\ transcribes = 0

\* adapter.initialize(config): a session passes SttConfig { model_name,
\* ..Default::default() }, so its language is None; a user of the library
\* passes any configuration.
Initialize(caller, language) ==
    /\ decPc = "idle"
    /\ transcribes < MaxTranscribes
    /\ caller = "session" => language = None
    /\ decCaller' = caller
    /\ config_language' = language
    /\ UNCHANGED <<decPc, calls, decReturn, transcribes>>
    /\ UNCHANGED <<sessionVars, injVars, dlVars, cacheVars, hkVars, moreVars, lateVars>>

\* transcribe on an initialized adapter with audio left after preprocessing:
\* the entry of run_whisper_transcription(language_override = config.language)
TranscribeBegin ==
    /\ decPc = "idle"
    /\ decCaller # "none"
    /\ transcribes < MaxTranscribes
    /\ transcribes' = transcribes + 1
    /\ calls' = <<>>
    /\ decReturn' = Running
    /\ decPc' = "primary"
    /\ UNCHANGED <<decCaller, config_language>>
    /\ UNCHANGED <<sessionVars, injVars, dlVars, cacheVars, hkVars, moreVars, lateVars>>

\* DecodePrimary without the branch on requested_language.is_none()
DecodePrimarySkipsAuto(raw, ok) ==
    /\ decPc = "primary"
    /\ LET language == preferred_language(config_language)
           decoded == decode_once(raw, language, None)
       IN  IF ~ok
           THEN /\ calls' = Append(calls, DecodeCall("Primary", language, Err))
                /\ decReturn' = Err
                /\ decPc' = "done"
           ELSE /\ calls' = Append(calls, DecodeCall("Primary", language, Ok(decoded)))
                /\ IF HasOutput(decoded)
                   THEN /\ decReturn' = Ok(decoded)
                        /\ decPc' = "done"
                   ELSE /\ decReturn' = decReturn
                        /\ decPc' = "permissive"
    /\ UNCHANGED <<decCaller, config_language, transcribes>>
    /\ UNCHANGED <<sessionVars, injVars, dlVars, cacheVars, hkVars, moreVars, lateVars>>

\* decode_once(preferred_language, Primary)?, returned when it has output
DecodePrimary(raw, ok) ==
    /\ decPc = "primary"
    /\ LET language == preferred_language(config_language)
           decoded == decode_once(raw, language, None)
       IN  IF ~ok
           THEN /\ calls' = Append(calls, DecodeCall("Primary", language, Err))
                /\ decReturn' = Err
                /\ decPc' = "done"
           ELSE /\ calls' = Append(calls, DecodeCall("Primary", language, Ok(decoded)))
                /\ IF HasOutput(decoded)
                   THEN /\ decReturn' = Ok(decoded)
                        /\ decPc' = "done"
                   ELSE /\ decReturn' = decReturn
                        /\ decPc' = IF requested_language(config_language) = None
                                    THEN "auto"
                                    ELSE "permissive"
    /\ UNCHANGED <<decCaller, config_language, transcribes>>
    /\ UNCHANGED <<sessionVars, injVars, dlVars, cacheVars, hkVars, moreVars, lateVars>>

\* DecodeAuto returning the auto-detect attempt whether or not it has output
DecodeAutoReturnsEmpty(raw, detected, ok) ==
    /\ decPc = "auto"
    /\ LET decoded == decode_once(raw, None, detected)
       IN  IF ~ok
           THEN /\ calls' = Append(calls, DecodeCall("Primary", None, Err))
                /\ decReturn' = Err
           ELSE /\ calls' = Append(calls, DecodeCall("Primary", None, Ok(decoded)))
                /\ decReturn' = Ok(decoded)
    /\ decPc' = "done"
    /\ UNCHANGED <<decCaller, config_language, transcribes>>
    /\ UNCHANGED <<sessionVars, injVars, dlVars, cacheVars, hkVars, moreVars, lateVars>>

\* if requested_language.is_none(): decode_once(None, Primary)?
DecodeAuto(raw, detected, ok) ==
    /\ decPc = "auto"
    /\ LET decoded == decode_once(raw, None, detected)
       IN  IF ~ok
           THEN /\ calls' = Append(calls, DecodeCall("Primary", None, Err))
                /\ decReturn' = Err
                /\ decPc' = "done"
           ELSE /\ calls' = Append(calls, DecodeCall("Primary", None, Ok(decoded)))
                /\ IF HasOutput(decoded)
                   THEN /\ decReturn' = Ok(decoded)
                        /\ decPc' = "done"
                   ELSE /\ decReturn' = decReturn
                        /\ decPc' = "permissive"
    /\ UNCHANGED <<decCaller, config_language, transcribes>>
    /\ UNCHANGED <<sessionVars, injVars, dlVars, cacheVars, hkVars, moreVars, lateVars>>

\* decode_once(preferred_language, PermissiveFallback)?, returned as it is
DecodePermissive(raw, ok) ==
    /\ decPc = "permissive"
    /\ LET language == preferred_language(config_language)
           decoded == decode_once(raw, language, None)
       IN  IF ~ok
           THEN /\ calls' = Append(calls, DecodeCall("PermissiveFallback", language, Err))
                /\ decReturn' = Err
           ELSE /\ calls' = Append(calls, DecodeCall("PermissiveFallback", language, Ok(decoded)))
                /\ decReturn' = Ok(decoded)
    /\ decPc' = "done"
    /\ UNCHANGED <<decCaller, config_language, transcribes>>
    /\ UNCHANGED <<sessionVars, injVars, dlVars, cacheVars, hkVars, moreVars, lateVars>>

\* the caller has the result; the adapter is ready for the next request
TranscribeReturn ==
    /\ decPc = "done"
    /\ decPc' = "idle"
    /\ UNCHANGED <<decCaller, config_language, calls, decReturn, transcribes>>
    /\ UNCHANGED <<sessionVars, injVars, dlVars, cacheVars, hkVars, moreVars, lateVars>>

\* ======================================================= the hotkey machine
\* The event tap (macOS) and the raw-input window (Windows) run the same
\* machine.  The keyboard is as the machine has seen it: fn_down follows the
\* Fn key, a key token stands for its keycode, and every press and release
\* reaches the handler in order.
MaxRequests == 4
MaxEvents == 8

Modifiers == {"fn", "ctrl", "shift", "alt", "meta"}
KeyTokens == {"space", "k", "v"}

\* ShortcutSpec as parse_shortcut builds it from the tokens of a string
ShortcutSpec(mods, key) ==
    [fn |-> "fn" \in mods, ctrl |-> "ctrl" \in mods, shift |-> "shift" \in mods,
     alt |-> "alt" \in mods, meta |-> "meta" \in mods, key |-> key]

\* parse_shortcut("fn") and parse_shortcut("fn+space")
DefaultPushToTalk == ShortcutSpec({"fn"}, None)
DefaultHandsFree == ShortcutSpec({"fn"}, Some("space"))

\* settings.shortcuts as set_shortcuts may have stored them: two different
\* specs
ShortcutSettings ==
    {<<DefaultPushToTalk, DefaultHandsFree>>,
     <<ShortcutSpec({"ctrl"}, Some("k")), ShortcutSpec({"meta"}, None)>>,
     <<ShortcutSpec({"alt"}, Some("space")), ShortcutSpec({"ctrl", "shift"}, Some("k"))>>}

\* start_recording_for_capture returns Ok(()) or an error of the device or
\* of the stream
StartResults == {"Ok", "Err"}

KeyState(f, c, s, a, m, keys) ==
    [fn_down |-> f, ctrl_down |-> c, shift_down |-> s, alt_down |-> a,
     meta_down |-> m, pressed_keys |-> keys]

Event(kind, key, down) == [kind |-> kind, key |-> key, down |-> down]

ModifierDown(m) ==
    CASE m = "fn"    -> fn_down
      [] m = "ctrl"  -> ctrl_down
      [] m = "shift" -> shift_down
      [] m = "alt"   -> alt_down
      [] OTHER       -> meta_down

\* The events the keyboard can send now: a modifier changes, a key goes
\* down (again, when it repeats), a key that is down comes up.
CanHappen(ev) ==
    CASE ev.kind = "FlagsChanged" -> ev.key \in Modifiers /\ ev.down # ModifierDown(ev.key)
      [] ev.kind = "KeyDown"      -> ev.key \in KeyTokens /\ ev.down
      [] OTHER                    -> ev.key \in pressed_keys /\ ~ev.down

\* the modifier flags and the pressed-key set after the event
StateAfter(ev) ==
    IF ev.kind = "FlagsChanged"
    THEN KeyState(IF ev.key = "fn" THEN ev.down ELSE fn_down,
                  IF ev.key = "ctrl" THEN ev.down ELSE ctrl_down,
                  IF ev.key = "shift" THEN ev.down ELSE shift_down,
                  IF ev.key = "alt" THEN ev.down ELSE alt_down,
                  IF ev.key = "meta" THEN ev.down ELSE meta_down,
                  pressed_keys)
    ELSE KeyState(fn_down, ctrl_down, shift_down, alt_down, meta_down,
                  IF ev.kind = "KeyDown"
                  THEN pressed_keys \cup {ev.key}
                  ELSE pressed_keys \ {ev.key})

\* is_shortcut_active with the test of the pressed-key set left at contains
is_shortcut_active_contains(spec, state) ==
    IF spec.fn /\ ~state.fn_down THEN FALSE
    ELSE IF spec.ctrl /\ ~state.ctrl_down THEN FALSE
    ELSE IF spec.shift /\ ~state.shift_down THEN FALSE
    ELSE IF spec.alt /\ ~state.alt_down THEN FALSE
    ELSE IF spec.meta /\ ~state.meta_down THEN FALSE
    ELSE IF spec.key # None THEN spec.key[1] \in state.pressed_keys
    ELSE TRUE

is_shortcut_active(spec, state) ==
    IF spec.fn /\ ~state.fn_down THEN FALSE
    ELSE IF spec.ctrl /\ ~state.ctrl_down THEN FALSE
    ELSE IF spec.shift /\ ~state.shift_down THEN FALSE
    ELSE IF spec.alt /\ ~state.alt_down THEN FALSE
    ELSE IF spec.meta /\ ~state.meta_down THEN FALSE
    ELSE IF spec.key # None
    THEN Cardinality(state.pressed_keys) = 1 /\ spec.key[1] \in state.pressed_keys
    ELSE TRUE

Request(request, result) == [request |-> request, result |-> result]

\* sync_recording without the early return on should_record ==
\* is_recording_active
sync_recording_unconditional(should_record, r) ==
    IF should_record
    THEN /\ requests' = Append(requests, Request("start", r))
         /\ is_recording_active' = (r \in {"Ok", "Already recording"})
    ELSE /\ requests' = Append(requests, Request("stop", "Ok"))
         /\ is_recording_active' = FALSE

\* sync_recording: nothing when should_record == is_recording_active; else
\* start_capture, whose result r decides the flag, or stop_capture, which
\* spawns the stop task and clears the flag.
sync_recording(should_record, r) ==
    IF should_record = is_recording_active
    THEN UNCHANGED <<is_recording_active, requests>>
    ELSE IF should_record
    THEN /\ requests' = Append(requests, Request("start", r))
         /\ is_recording_active' = (r \in {"Ok", "Already recording"})
    ELSE /\ requests' = Append(requests, Request("stop", "Ok"))
         /\ is_recording_active' = FALSE

\* HandleEvent flipping is_hands_free on every event that finds the
\* hands-free shortcut active
HandleEventFlipsOnLevel(ev, r) ==
    LET state == StateAfter(ev)
        hands_combo_active == is_shortcut_active(hands_free_toggle, state)
        hands_free == IF hands_combo_active THEN ~is_hands_free ELSE is_hands_free
        push_active == IF hands_free THEN FALSE
                       ELSE is_shortcut_active(push_to_talk, state)
    IN  /\ CanHappen(ev)
        /\ Len(requests) < MaxRequests
        /\ fn_down' = state.fn_down
        /\ ctrl_down' = state.ctrl_down
        /\ shift_down' = state.shift_down
        /\ alt_down' = state.alt_down
        /\ meta_down' = state.meta_down
        /\ pressed_keys' = state.pressed_keys
        /\ is_hands_free' = hands_free
        /\ hands_free_combo_prev_active' = hands_combo_active
        /\ is_push_active' = push_active
        /\ sync_recording(hands_free \/ push_active, r)
        /\ hold_emitted' = (hands_free \/ push_active)
        /\ UNCHANGED <<push_to_talk, hands_free_toggle>>
        /\ UNCHANGED <<stream, samples, stt_adapter, loaded_model, is_recording,
                       adapterLock, openStreams, startPc, startSid, stopPc,
                       stopSid, partPc, partSnap, nextSid, samplesOwner, events,
                       outcome, decoderCalls, injected>>
        /\ UNCHANGED <<injVars, dlVars, cacheVars, decVars, moreVars, lateVars>>

\* HandleEvent with the push-to-talk shortcut read while hands-free is on
HandleEventPushInHandsFree(ev, r) ==
    LET state == StateAfter(ev)
        hands_combo_active == is_shortcut_active(hands_free_toggle, state)
        hands_free == IF hands_combo_active /\ ~hands_free_combo_prev_active
                      THEN ~is_hands_free
                      ELSE is_hands_free
        push_active == is_shortcut_active(push_to_talk, state)
    IN  /\ CanHappen(ev)
        /\ Len(requests) < MaxRequests
        /\ fn_down' = state.fn_down
        /\ ctrl_down' = state.ctrl_down
        /\ shift_down' = state.shift_down
        /\ alt_down' = state.alt_down
        /\ meta_down' = state.meta_down
        /\ pressed_keys' = state.pressed_keys
        /\ is_hands_free' = hands_free
        /\ hands_free_combo_prev_active' = hands_combo_active
        /\ is_push_active' = push_active
        /\ sync_recording(hands_free \/ push_active, r)
        /\ hold_emitted' = (hands_free \/ push_active)
        /\ UNCHANGED <<push_to_talk, hands_free_toggle>>
        /\ UNCHANGED <<stream, samples, stt_adapter, loaded_model, is_recording,
                       adapterLock, openStreams, startPc, startSid, stopPc,
                       stopSid, partPc, partSnap, nextSid, samplesOwner, events,
                       outcome, decoderCalls, injected>>
        /\ UNCHANGED <<injVars, dlVars, cacheVars, decVars, moreVars, lateVars>>

\* fn_event_tap_callback / handle_raw_input on one keyboard event: the flags
\* and the pressed-key set, load_shortcuts, the rising edge of the hands-free
\* shortcut, is_push_active, sync_recording, sync_hold_signal.
HandleEvent(ev, r) ==
    LET state == StateAfter(ev)
        hands_combo_active == is_shortcut_active(hands_free_toggle, state)
        hands_free == IF hands_combo_active /\ ~hands_free_combo_prev_active
                      THEN ~is_hands_free
                      ELSE is_hands_free
        push_active == IF hands_free THEN FALSE
                       ELSE is_shortcut_active(push_to_talk, state)
    IN  /\ CanHappen(ev)
        /\ Len(requests) < MaxRequests
        /\ fn_down' = state.fn_down
        /\ ctrl_down' = state.ctrl_down
        /\ shift_down' = state.shift_down
        /\ alt_down' = state.alt_down
        /\ meta_down' = state.meta_down
        /\ pressed_keys' = state.pressed_keys
        /\ is_hands_free' = hands_free
        /\ hands_free_combo_prev_active' = hands_combo_active
        /\ is_push_active' = push_active
        /\ sync_recording(hands_free \/ push_active, r)
        /\ hold_emitted' = (hands_free \/ push_active)
        /\ UNCHANGED <<push_to_talk, hands_free_toggle>>
        /\ UNCHANGED <<stream, samples, stt_adapter, loaded_model, is_recording,
                       adapterLock, openStreams, startPc, startSid, stopPc,
                       stopSid, partPc, partSnap, nextSid, samplesOwner, events,
                       outcome, decoderCalls, injected>>
        /\ UNCHANGED <<injVars, dlVars, cacheVars, decVars, moreVars, lateVars>>

\* the handler on each kind of event
FlagsChanged(m, down, r) ==
    /\ HandleEvent(Event("FlagsChanged", m, down), r)
    /\ UNCHANGED keylog

KeyDown(k, r) ==
    /\ HandleEvent(Event("KeyDown", k, TRUE), r)
    /\ UNCHANGED keylog

KeyUp(k, r) ==
    /\ HandleEvent(Event("KeyUp", k, FALSE), r)
    /\ UNCHANGED keylog

\* the handler on the events of the Fn and Space keys, logged; a key that
\* is down does not repeat
ChordEvents ==
    {Event("FlagsChanged", "fn", TRUE), Event("FlagsChanged", "fn", FALSE),
     Event("KeyDown", "space", TRUE), Event("KeyUp", "space", FALSE)}

ChordEvent(ev, r) ==
    /\ Len(keylog) < MaxEvents
    /\ ev.kind = "KeyDown" => ev.key \notin pressed_keys
    /\ HandleEvent(ev, r)
    /\ keylog' = Append(keylog, ev)

\* trigger_paste_shortcut: enigo's key_down(Meta), key_click('v'),
\* key_up(Meta) on macOS, the same under Control elsewhere, as the events the
\* keyboard hook receives
trigger_paste_shortcut ==
    LET modifier == IF platform = "macos" THEN "meta" ELSE "ctrl"
    IN  <<Event("FlagsChanged", modifier, TRUE), Event("KeyDown", "v", TRUE),
          Event("KeyUp", "v", FALSE), Event("FlagsChanged", modifier, FALSE)>>

\* the handler on the next event of the injector's paste chord, logged
PasteChordEvent(r) ==
    /\ Len(keylog) < MaxEvents
    /\ HandleEvent(trigger_paste_shortcut[(Len(keylog) % 4) + 1], r)
    /\ keylog' = Append(keylog, trigger_paste_shortcut[(Len(keylog) % 4) + 1])

\* start_fn_hold_listener: the FnHoldState it boxes, over the shortcuts in
\* the store
InitHotkey(settings) ==
    /\ fn_down = FALSE
    /\ ctrl_down = FALSE
    /\ shift_down = FALSE
    /\ alt_down = FALSE
    /\ meta_down = FALSE
    /\ pressed_keys = {}
    /\ is_push_active = FALSE
    /\ is_hands_free = FALSE
    /\ hold_emitted = FALSE
    /\ hands_free_combo_prev_active = FALSE
    /\ push_to_talk = settings[1]
    /\ hands_free_toggle = settings[2]
    /\ requests = <<>>
    /\ keylog = <<>>

InitHotkeyAtRest == InitHotkey(<<DefaultPushToTalk, DefaultHandsFree>>)

\* ================================================== the tail of a stop
\* What stop_recording_for_capture does once the decoder has returned Ok:
\* the optional formatting step, snippet expansion, the paste and the two
\* events that end the session.  Texts are sequences of characters.
MaxTails == 2

ResultTexts == { <<"a">>, <<"A", "b">> }

FormattedTexts == { <<"A", "b", ".">>, <<"b">> }

Snippet(trigger, expansion) == [trigger |-> trigger, expansion |-> expansion]

SnippetLists ==
    { <<>>,
      <<Snippet(<<"a">>, <<"x">>)>>,
      <<Snippet(<<"a">>, <<"x">>), Snippet(<<"a", "b">>, <<"{{date}}">>)>>,
      <<Snippet(<<>>, <<"x">>), Snippet(<<"b">>, <<"y", "{{time}}">>)>> }

\* str::to_lowercase on the letters of the alphabet in use.
LowerChar(c) ==
    CASE c = "A" -> "a"
      [] c = "B" -> "b"
      [] c = "X" -> "x"
      [] OTHER   -> c

to_lowercase(text) == [i \in 1..Len(text) |-> LowerChar(text[i])]

\* The two variables an expansion may hold, replaced by the local date and
\* time; each is one element of the sequence.
ExpandVariables(expansion) ==
    [i \in 1..Len(expansion) |->
        IF expansion[i] = "{{date}}" THEN "<date>"
        ELSE IF expansion[i] = "{{time}}" THEN "<time>"
        ELSE expansion[i]]

\* sort_by(|a, b| b.trigger.len().cmp(&a.trigger.len())): a stable sort,
\* longest trigger first.
RECURSIVE InsertByTriggerLength(_, _)
InsertByTriggerLength(sorted, snippet) ==
    IF sorted = <<>> THEN <<snippet>>
    ELSE IF Len(Head(sorted).trigger) >= Len(snippet.trigger)
         THEN <<Head(sorted)>> \o InsertByTriggerLength(Tail(sorted), snippet)
         ELSE <<snippet>> \o sorted

RECURSIVE SortByTriggerLength(_)
SortByTriggerLength(list) ==
    IF list = <<>> THEN <<>>
    ELSE InsertByTriggerLength(SortByTriggerLength(SubSeq(list, 1, Len(list) - 1)),
                               list[Len(list)])

\* The while-let loop: every occurrence of the trigger, compared in lower
\* case, left to right and without overlap, gives way to the expansion.
RECURSIVE ReplaceIgnoringCase(_, _, _)
ReplaceIgnoringCase(text, trigger_lower, expansion) ==
    IF Len(text) < Len(trigger_lower) THEN text
    ELSE IF to_lowercase(SubSeq(text, 1, Len(trigger_lower))) = trigger_lower
         THEN expansion \o
              ReplaceIgnoringCase(SubSeq(text, Len(trigger_lower) + 1, Len(text)),
                                  trigger_lower, expansion)
         ELSE <<Head(text)>> \o
              ReplaceIgnoringCase(Tail(text), trigger_lower, expansion)

RECURSIVE ApplySorted(_, _)
ApplySorted(text, sorted_snippets) ==
    IF sorted_snippets = <<>> THEN text
    ELSE LET snippet == Head(sorted_snippets)
             replaced ==
                 IF snippet.trigger = <<>> THEN text
                 ELSE ReplaceIgnoringCase(text, to_lowercase(snippet.trigger),
                                          ExpandVariables(snippet.expansion))
         IN  ApplySorted(replaced, Tail(sorted_snippets))

\* The replacement that stops after the first occurrence.
RECURSIVE ReplaceFirstIgnoringCase(_, _, _)
ReplaceFirstIgnoringCase(text, trigger_lower, expansion) ==
    IF Len(text) < Len(trigger_lower) THEN text
    ELSE IF to_lowercase(SubSeq(text, 1, Len(trigger_lower))) = trigger_lower
         THEN expansion \o SubSeq(text, Len(trigger_lower) + 1, Len(text))
         ELSE <<Head(text)>> \o
              ReplaceFirstIgnoringCase(Tail(text), trigger_lower, expansion)

RECURSIVE ApplySortedFirst(_, _)
ApplySortedFirst(text, sorted_snippets) ==
    IF sorted_snippets = <<>> THEN text
    ELSE LET snippet == Head(sorted_snippets)
             replaced ==
                 IF snippet.trigger = <<>> THEN text
                 ELSE ReplaceFirstIgnoringCase(text, to_lowercase(snippet.trigger),
                                               ExpandVariables(snippet.expansion))
         IN  ApplySortedFirst(replaced, Tail(sorted_snippets))

apply_snippets_first_occurrence(text, list) ==
    ApplySortedFirst(text, SortByTriggerLength(list))

apply_snippets(text, list) == ApplySorted(text, SortByTriggerLength(list))

\* How the formatting step ended: not run, TextProcessor::new failed,
\* process failed, or process returned a formatted text.
NotFormatted == <<"none">>
FormatFailures == { <<"Err", "initialize">>, <<"Err", "process">> }
Formatted(text) == <<"Ok", text>>
FormatOutcomes == FormatFailures \cup { Formatted(t) : t \in FormattedTexts }

TranscriptionResult(text) ==
    [event |-> "transcription-result", text |-> text, is_final |-> TRUE]

StatusIdle == [event |-> "transcription-status", status |-> "idle"]

InitTailAtRest ==
    /\ text_formatting_enabled = FALSE
    /\ snippets = <<>>
    /\ fmtPc = "idle"
    /\ result_text = <<>>
    /\ final_text = <<>>
    /\ fmtOutcome = NotFormatted
    /\ pasted = None
    /\ uiEvents = <<>>
    /\ tails = 0


\* adapter.transcribe returned Ok(result): the settings are read and
\* final_text starts as the transcript.
TranscribeOk(text, enabled, list) ==
    /\ fmtPc = "idle"
    /\ tails < MaxTails
    /\ tails' = tails + 1
    /\ text_formatting_enabled' = enabled
    /\ snippets' = list
    /\ result_text' = text
    /\ final_text' = text
    /\ fmtOutcome' = NotFormatted
    /\ pasted' = None
    /\ fmtPc' = IF enabled THEN "format" ELSE "paste"
    /\ UNCHANGED uiEvents
    /\ UNCHANGED fmtFrame

\* The formatting step in which a failure ends the session at once.
FormatTranscriptFatal(formatting) ==
    /\ fmtPc = "format"
    /\ fmtOutcome' = formatting
    /\ IF formatting \in FormatFailures
       THEN /\ fmtPc' = "idle"
            /\ UNCHANGED final_text
       ELSE /\ fmtPc' = "paste"
            /\ final_text' = IF snippets # <<>>
                             THEN apply_snippets(formatting[2], snippets)
                             ELSE formatting[2]
    /\ UNCHANGED <<text_formatting_enabled, snippets, result_text, pasted,
                   uiEvents, tails>>
    /\ UNCHANGED fmtFrame

\* if settings.text_formatting_enabled { match ... { Ok(processing_result)
\* => ..., Err(e) => ... } }
FormatTranscript(formatting) ==
    /\ fmtPc = "format"
    /\ fmtOutcome' = formatting
    /\ fmtPc' = "paste"
    /\ IF formatting \in FormatFailures
       THEN UNCHANGED final_text
       ELSE final_text' = IF snippets # <<>>
                          THEN apply_snippets(formatting[2], snippets)
                          ELSE formatting[2]
    /\ UNCHANGED <<text_formatting_enabled, snippets, result_text, pasted,
                   uiEvents, tails>>
    /\ UNCHANGED fmtFrame

\* paste_text_preserving_clipboard(&final_text); its result is only logged.
PasteFinalText ==
    /\ fmtPc = "paste"
    /\ pasted' = Some(final_text)
    /\ fmtPc' = "emit"
    /\ UNCHANGED <<text_formatting_enabled, snippets, result_text, final_text,
                   fmtOutcome, uiEvents, tails>>
    /\ UNCHANGED fmtFrame

\* emit_all("transcription-result", ...) and then
\* emit_transcription_status(&app, "idle", None).
EmitFinalAndIdle ==
    /\ fmtPc = "emit"
    /\ uiEvents' = uiEvents \o <<TranscriptionResult(result_text), StatusIdle>>
    /\ fmtPc' = "idle"
    /\ UNCHANGED <<text_formatting_enabled, snippets, result_text, final_text,
                   fmtOutcome, pasted, tails>>
    /\ UNCHANGED fmtFrame

\* ==================================================== the shortcut store
\* A shortcut string is a sequence of pieces: the separator "+", a blank
\* " ", or a word, which split, trim and to_ascii_lowercase treat as a
\* whole.
MaxParts == 3

ParseWords == {"fn", "Ctrl", "control", "shift", "cmd", "K", "m"}

RECURSIVE Join(_)
Join(parts) ==
    IF parts = <<>> THEN <<>>
    ELSE IF Len(parts) = 1 THEN parts[1]
    ELSE parts[1] \o <<"+">> \o Join(Tail(parts))

\* The parts a string is made of: empty, blank, a word, a padded word.
RawParts ==
    { <<>>, <<" ">> } \cup { <<w>> : w \in ParseWords }
                      \cup { <<" ", w, " ">> : w \in ParseWords }

RawShortcuts ==
    { Join(parts) : parts \in UNION { [1..n -> RawParts] : n \in 1..MaxParts } }

\* raw.split('+'): the parts between the separators, empty ones included.
RECURSIVE Split(_)
Split(text) ==
    IF \A i \in 1..Len(text) : text[i] # "+" THEN <<text>>
    ELSE LET at == CHOOSE i \in 1..Len(text) :
                       text[i] = "+" /\ \A j \in 1..(i - 1) : text[j] # "+"
         IN  <<SubSeq(text, 1, at - 1)>> \o Split(SubSeq(text, at + 1, Len(text)))

AsciiLowerWord(w) ==
    CASE w = "Fn"    -> "fn"
      [] w = "Ctrl"  -> "ctrl"
      [] w = "K"     -> "k"
      [] w = "Space" -> "space"
      [] OTHER       -> w

to_ascii_lowercase(part) == [i \in 1..Len(part) |-> AsciiLowerWord(part[i])]

NonEmpty(part) == part # <<>>

normalize_shortcut(raw) ==
    LET parts == Split(raw)
        lowered == [i \in 1..Len(parts) |-> to_ascii_lowercase(trim(parts[i]))]
    IN  Join(SelectSeq(lowered, NonEmpty))

ErrMessage(message) == [kind |-> "Err", value |-> message]

EmptyShortcut == <<"Shortcut cannot be empty">>
OneKeyOnly == <<"Shortcut can include only one non-modifier key">>
MustDiffer == <<"Push-to-talk and hands-free shortcuts must be different">>

\* The modifier a token names, if it names one.
ModifierOf(token) ==
    CASE token = <<"fn">> -> Some("fn")
      [] token \in {<<"ctrl">>, <<"control">>} -> Some("ctrl")
      [] token = <<"shift">> -> Some("shift")
      [] token \in {<<"alt">>, <<"option">>} -> Some("alt")
      [] token \in {<<"meta">>, <<"cmd">>, <<"command">>, <<"win">>, <<"super">>}
             -> Some("meta")
      [] OTHER -> None

\* The for loop of parse_shortcut over the tokens: the modifiers and the
\* key seen so far, or the error of a second key.
RECURSIVE ParseTokens(_, _, _)
ParseTokens(tokens, mods, key) ==
    IF tokens = <<>> THEN Ok(ShortcutSpec(mods, key))
    ELSE IF ModifierOf(Head(tokens)) # None
         THEN ParseTokens(Tail(tokens), mods \cup {ModifierOf(Head(tokens))[1]}, key)
         ELSE IF key # None THEN ErrMessage(OneKeyOnly)
              ELSE ParseTokens(Tail(tokens), mods, Some(Head(tokens)))

\* The parser in which a second key replaces the first.
parse_shortcut_last_key(raw) ==
    LET normalized == normalize_shortcut(raw)
        RECURSIVE LastKey(_, _, _)
        LastKey(tokens, mods, key) ==
            IF tokens = <<>> THEN Ok(ShortcutSpec(mods, key))
            ELSE IF ModifierOf(Head(tokens)) # None
                 THEN LastKey(Tail(tokens),
                              mods \cup {ModifierOf(Head(tokens))[1]}, key)
                 ELSE LastKey(Tail(tokens), mods, Some(Head(tokens)))
    IN  IF normalized = <<>> THEN ErrMessage(EmptyShortcut)
        ELSE LastKey(Split(normalized), {}, None)

parse_shortcut(raw) ==
    LET normalized == normalize_shortcut(raw)
    IN  IF normalized = <<>> THEN ErrMessage(EmptyShortcut)
        ELSE LET parsed == ParseTokens(Split(normalized), {}, None)
                 spec == parsed.value
             IN  IF /\ parsed.kind = "Ok"
                    /\ ~spec.fn /\ ~spec.ctrl /\ ~spec.shift /\ ~spec.alt
                    /\ ~spec.meta /\ spec.key = None
                 THEN ErrMessage(EmptyShortcut)
                 ELSE parsed

format_shortcut(spec) ==
    Join((IF spec.fn THEN <<<<"fn">>>> ELSE <<>>)
         \o (IF spec.ctrl THEN <<<<"ctrl">>>> ELSE <<>>)
         \o (IF spec.shift THEN <<<<"shift">>>> ELSE <<>>)
         \o (IF spec.alt THEN <<<<"alt">>>> ELSE <<>>)
         \o (IF spec.meta THEN <<<<"meta">>>> ELSE <<>>)
         \o (IF spec.key # None THEN <<spec.key[1]>> ELSE <<>>))

StoredShortcuts(push, hands_free, command) ==
    [push_to_talk |-> push, hands_free_toggle |-> hands_free,
     command_mode |-> command]

\* ShortcutSettings::default()
DefaultShortcuts ==
    StoredShortcuts(<<"fn">>, <<"fn", "+", "space">>, <<"fn", "+", "ctrl">>)

\* The strings the settings window may send to set_shortcuts.
ShortcutInputs ==
    { <<>>,
      <<"fn">>,
      <<" ", "Fn", " ", "+", " ", " ", "Space", " ">>,
      <<"Ctrl", "+", "K">>,
      <<"control", "+", "k">>,
      <<"ctrl", "+", "k", "+", "m">> }

CommandInputs ==
    { <<" ", "+", " ">>,
      <<"Fn", "+", "Ctrl">>,
      <<"ctrl", "+", "k", "+", "m">>,
      <<"shift", "+", "ctrl", "+", "space", "+", "fn">> }

SetCall(push, hands_free, command, before, result) ==
    [push_to_talk |-> push, hands_free_toggle |-> hands_free,
     command_mode |-> command, before |-> before, result |-> result]

InitStoreAtRest ==
    /\ raw_shortcut = <<>>
    /\ parse_result = None
    /\ shortcuts = DefaultShortcuts
    /\ last_set = None

\* parse_shortcut(&raw) on the string under study.
ParseShortcut ==
    /\ parse_result = None
    /\ parse_result' = Some(parse_shortcut(raw_shortcut))
    /\ UNCHANGED <<raw_shortcut, shortcuts, last_set>>
    /\ UNCHANGED storeFrame

\* set_shortcuts that parses nothing and stores what it was given.
set_shortcuts_unchecked(push, hands_free, command) ==
    /\ shortcuts' = StoredShortcuts(push, hands_free, command)
    /\ last_set' = Some(SetCall(push, hands_free, command, shortcuts,
                                Ok(shortcuts')))
    /\ UNCHANGED <<raw_shortcut, parse_result>>
    /\ UNCHANGED storeFrame

set_shortcuts(push, hands_free, command) ==
    LET parsed_push == parse_shortcut(push)
        parsed_hands_free == parse_shortcut(hands_free)
        parsed_command == parse_shortcut(command)
        result ==
            IF parsed_push.kind = "Err" THEN parsed_push
            ELSE IF parsed_hands_free.kind = "Err" THEN parsed_hands_free
            ELSE IF format_shortcut(parsed_push.value)
                        = format_shortcut(parsed_hands_free.value)
                 THEN ErrMessage(MustDiffer)
            ELSE IF parsed_command.kind = "Err" THEN parsed_command
            ELSE Ok(StoredShortcuts(format_shortcut(parsed_push.value),
                                    format_shortcut(parsed_hands_free.value),
                                    format_shortcut(parsed_command.value)))
    IN  /\ shortcuts' = IF result.kind = "Ok" THEN result.value ELSE shortcuts
        /\ last_set' = Some(SetCall(push, hands_free, command, shortcuts, result))
        /\ UNCHANGED <<raw_shortcut, parse_result>>
        /\ UNCHANGED storeFrame

\* ============================================ selecting and deleting models
\* The set_active_model and delete_model commands, each an async task of
\* its own: a step is what a command does between two points where the
\* other may run.
NotDownloaded == "Model is not downloaded"
MustBeDownloaded == "Model must be downloaded before selection"
CannotDeleteActive ==
    "Cannot delete the currently active model. Please select a different model first."
ModelFileNotFound == "Model file not found"

active_model_value == active_transcription_model

InitModelsAtRest ==
    /\ active_transcription_model = ActiveModel
    /\ delPc = "idle"
    /\ delModel = WhisperModel
    /\ delResult = "none"
    /\ setPc = "idle"
    /\ setModel = WhisperModel
    /\ setResult = "none"

\* delete_model up to its first await: the test against the active model
\* and create_adapter.
DeleteBegin(m) ==
    /\ delPc = "idle"
    /\ create_adapter_ok
    /\ delModel' = m
    /\ IF active_model_value = m
       THEN delResult' = CannotDeleteActive /\ delPc' = "idle"
       ELSE delResult' = "none" /\ delPc' = "available"
    /\ UNCHANGED <<active_transcription_model, setPc, setModel, setResult, finalFile>>
    /\ UNCHANGED modelFrame

\* adapter.is_model_available(&model).await
DeleteAvailable ==
    /\ delPc = "available"
    /\ IF is_model_available(delModel)
       THEN delPc' = "remove" /\ UNCHANGED delResult
       ELSE delPc' = "idle" /\ delResult' = NotDownloaded
    /\ UNCHANGED <<active_transcription_model, delModel, setPc, setModel,
                   setResult, finalFile>>
    /\ UNCHANGED modelFrame

\* remove_dir_all or remove_file on the model's path, if it is still there.
DeleteRemove ==
    /\ delPc = "remove"
    /\ delPc' = "idle"
    /\ IF finalFile[delModel]
       THEN /\ finalFile' = [finalFile EXCEPT ![delModel] = FALSE]
            /\ delResult' = "Ok"
       ELSE /\ UNCHANGED finalFile
            /\ delResult' = ModelFileNotFound
    /\ UNCHANGED <<active_transcription_model, delModel, setPc, setModel, setResult>>
    /\ UNCHANGED modelFrame

\* set_active_model up to its await.
SetActiveBegin(m) ==
    /\ setPc = "idle"
    /\ create_adapter_ok
    /\ setModel' = m
    /\ setResult' = "none"
    /\ setPc' = "available"
    /\ UNCHANGED <<active_transcription_model, delPc, delModel, delResult, finalFile>>
    /\ UNCHANGED modelFrame

\* adapter.is_model_available(&model).await
SetActiveAvailable ==
    /\ setPc = "available"
    /\ IF is_model_available(setModel)
       THEN setPc' = "store" /\ UNCHANGED setResult
       ELSE setPc' = "idle" /\ setResult' = MustBeDownloaded
    /\ UNCHANGED <<active_transcription_model, setModel, delPc, delModel,
                   delResult, finalFile>>
    /\ UNCHANGED modelFrame

\* store.settings.active_transcription_model = model; save_store
SetActiveStore ==
    /\ setPc = "store"
    /\ active_transcription_model' = setModel
    /\ setResult' = "Ok"
    /\ setPc' = "idle"
    /\ UNCHANGED <<setModel, delPc, delModel, delResult, finalFile>>
    /\ UNCHANGED modelFrame

\* ===================================================== the audio preprocessor
\* Samples are in units of 0.001, so 1.0 is 1000; a product or quotient
\* that falls between two units is cut towards zero.
MaxAudio == 3

\* TARGET_SAMPLE_RATE
TargetSampleRate == 16000
\* 0.20, 0.35 and 1.0 in units of 0.001
QuietPeak == 200
TargetPeak == 350
FullScale == 1000
\* the upper end of gain.clamp(1.0, 80.0)
MaxGain == 80

AudioAmplitudes == {-600, -1, 0, 2, 100, 250}

AudioBuffers == UNION { [1..n -> AudioAmplitudes] : n \in 0..MaxAudio }

AudioFormat(sample_rate, channels) ==
    [sample_rate |-> sample_rate, channels |-> channels]

AudioFormats ==
    { AudioFormat(r, c) : r \in {0, 8000, 16000, 32000}, c \in {0, 1, 2} }

Abs(x) == IF x < 0 THEN -x ELSE x

DivTowardsZero(a, b) == IF a >= 0 THEN a \div b ELSE -((-a) \div b)

Clamp(x, low, high) == IF x < low THEN low ELSE IF x > high THEN high ELSE x

RECURSIVE Sum(_)
Sum(frame) == IF frame = <<>> THEN 0 ELSE Head(frame) + Sum(Tail(frame))

\* audio_data.chunks(channels), each frame replaced by its mean; the last
\* frame may be short.
downmix_to_mono(buffer, channels) ==
    IF channels <= 1 THEN buffer
    ELSE LET frames == (Len(buffer) + channels - 1) \div channels
             Frame(k) ==
                 SubSeq(buffer, (k - 1) * channels + 1,
                        IF k * channels < Len(buffer) THEN k * channels
                        ELSE Len(buffer))
         IN  [k \in 1..frames |-> DivTowardsZero(Sum(Frame(k)), Len(Frame(k)))]

\* Linear interpolation at the positions i * from_rate / to_rate.
resample_linear(buffer, from_rate, to_rate) ==
    IF buffer = <<>> \/ from_rate = 0 \/ to_rate = 0 THEN <<>>
    ELSE IF from_rate = to_rate THEN buffer
    ELSE LET rounded == (2 * Len(buffer) * to_rate + from_rate) \div (2 * from_rate)
             out_len == IF rounded < 1 THEN 1 ELSE rounded
             At(idx) == buffer[IF idx + 1 < Len(buffer) THEN idx + 1 ELSE Len(buffer)]
             Out(i) ==
                 LET idx == (i * from_rate) \div to_rate
                     a == At(idx)
                     b == At(idx + 1)
                 IN  a + DivTowardsZero((b - a) * ((i * from_rate) % to_rate), to_rate)
         IN  [k \in 1..out_len |-> Out(k - 1)]

RECURSIVE Peak(_)
Peak(buffer) ==
    IF buffer = <<>> THEN 0
    ELSE LET rest == Peak(Tail(buffer))
         IN  IF Abs(Head(buffer)) > rest THEN Abs(Head(buffer)) ELSE rest

\* The gain with no upper end.
AmplifyUnbounded(sample, peak) ==
    Clamp(IF TargetPeak <= peak THEN sample
          ELSE DivTowardsZero(sample * TargetPeak, peak),
          -FullScale, FullScale)

\* sample * (target_peak / peak).clamp(1.0, 80.0), clamped to [-1, 1]
Amplify(sample, peak) ==
    LET scaled ==
            IF TargetPeak <= peak THEN sample
            ELSE IF TargetPeak > MaxGain * peak THEN sample * MaxGain
            ELSE DivTowardsZero(sample * TargetPeak, peak)
    IN  Clamp(scaled, -FullScale, FullScale)

\* The normalisation without the test that leaves normal captures alone.
normalize_for_asr_any_peak(buffer) ==
    IF buffer = <<>> \/ Peak(buffer) = 0 THEN buffer
    ELSE [i \in 1..Len(buffer) |-> Amplify(buffer[i], Peak(buffer))]

\* f32::EPSILON is below one unit: a peak at or under it is a peak of 0.
normalize_for_asr(buffer) ==
    IF buffer = <<>> THEN buffer
    ELSE LET peak == Peak(buffer)
         IN  IF peak = 0 THEN buffer
             ELSE IF peak >= QuietPeak THEN buffer
             ELSE IF 100 * Abs(TargetPeak - peak) < peak /\ TargetPeak <= MaxGain * peak
                  THEN buffer
             ELSE [i \in 1..Len(buffer) |-> Amplify(buffer[i], peak)]

prepare_audio(buffer, audio_format) ==
    IF buffer = <<>> \/ audio_format.sample_rate = 0 \/ audio_format.channels = 0
    THEN <<>>
    ELSE LET mono == IF audio_format.channels = 1 THEN buffer
                     ELSE downmix_to_mono(buffer, audio_format.channels)
             resampled ==
                 IF audio_format.sample_rate = TargetSampleRate THEN mono
                 ELSE resample_linear(mono, audio_format.sample_rate, TargetSampleRate)
         IN  normalize_for_asr(resampled)

InitPrepareAtRest ==
    /\ audio_data = <<>>
    /\ format = AudioFormat(TargetSampleRate, 1)
    /\ prepared = None

\* prepare_audio(&audio_data, &format)
PrepareAudio ==
    /\ prepared = None
    /\ prepared' = Some(prepare_audio(audio_data, format))
    /\ UNCHANGED <<audio_data, format>>
    /\ UNCHANGED prepFrame

\* ================================================ snippet expansion, repeated
MaxText == 3
MaxSnippets == 2
MaxExpansions == 2

SnippetChars == {"a", "A", "b", "c"}

SnippetTexts == UNION { [1..n -> SnippetChars] : n \in 0..MaxText }

SnippetPool ==
    { Snippet(trigger, expansion) :
        trigger \in { <<>>, <<"a">>, <<"B">>, <<"x">>, <<"a", "c">> },
        expansion \in { <<>>, <<"x">>, <<"x", "a">>, <<"X", "{{date}}">>, <<"c">> } }

SnippetListsUpTo == UNION { [1..n -> SnippetPool] : n \in 0..MaxSnippets }

InitSnippetsAtRest ==
    /\ snippet_text = <<>>
    /\ snippet_list = <<>>
    /\ expansions = <<>>

\* apply_snippets on the text, then on what it returned.
ExpandSnippets ==
    /\ Len(expansions) < MaxExpansions
    /\ expansions' =
           Append(expansions,
                  apply_snippets(IF expansions = <<>> THEN snippet_text
                                 ELSE expansions[Len(expansions)],
                                 snippet_list))
    /\ UNCHANGED <<snippet_text, snippet_list>>
    /\ UNCHANGED snipFrame

\* ====================================================== the text processor
MaxRaw == 5

\* the default of min_words_for_processing
DefaultMinWords == 3

FormattingModes == {"Quick", "Standard", "Smart", "Disabled"}

RawChars == {" ", "a", "b"}

RawTexts == UNION { [1..n -> RawChars] : n \in 0..MaxRaw }

\* What run_prompt may return: an error, or a text, which may be empty or
\* blank.
LlmError == "LlmError"
LlmResponses == { <<>>, <<" ">>, <<" ", "A", ".", " ">>, <<"A", " ", "b", ".">> }
LlmOutcomes == { ErrMessage(LlmError) } \cup { Ok(r) : r \in LlmResponses }

\* split_whitespace().count(): the words are the runs of non-blank
\* characters.
RECURSIVE WordCount(_)
WordCount(text) ==
    IF text = <<>> THEN 0
    ELSE IF Head(text) # " " /\ (Len(text) = 1 \/ text[2] = " ")
         THEN 1 + WordCount(Tail(text))
         ELSE WordCount(Tail(text))

ProcessingResult(formatted_text, original_text, mode_used) ==
    [formatted_text |-> formatted_text, original_text |-> original_text,
     mode_used |-> mode_used]

EmptyInput == "EmptyInput"

InitProcessorAtRest ==
    /\ tp_mode = "Standard"
    /\ min_words_for_processing = DefaultMinWords
    /\ raw_text = <<>>
    /\ llm_called = FALSE
    /\ processed = None

\* process in which an empty answer of the model is returned as it is.
ProcessKeepsEmpty(llm) ==
    /\ processed = None
    /\ LET trimmed == trim(raw_text)
       IN  IF trimmed = <<>>
           THEN processed' = Some(ErrMessage(EmptyInput)) /\ UNCHANGED llm_called
           ELSE IF tp_mode = "Disabled"
                   \/ WordCount(trimmed) < min_words_for_processing
           THEN /\ processed' = Some(Ok(ProcessingResult(trimmed, raw_text, "Disabled")))
                /\ UNCHANGED llm_called
           ELSE /\ llm_called' = TRUE
                /\ processed' =
                       Some(IF llm.kind = "Err" THEN ErrMessage(LlmError)
                            ELSE Ok(ProcessingResult(trim(llm.value), raw_text, tp_mode)))
    /\ UNCHANGED <<tp_mode, min_words_for_processing, raw_text>>
    /\ UNCHANGED tpFrame

\* TextProcessor::process(raw_text), with what the model answers if asked.
Process(llm) ==
    /\ processed = None
    /\ LET trimmed == trim(raw_text)
       IN  IF trimmed = <<>>
           THEN processed' = Some(ErrMessage(EmptyInput)) /\ UNCHANGED llm_called
           ELSE IF tp_mode = "Disabled"
                   \/ WordCount(trimmed) < min_words_for_processing
           THEN /\ processed' = Some(Ok(ProcessingResult(trimmed, raw_text, "Disabled")))
                /\ UNCHANGED llm_called
           ELSE /\ llm_called' = TRUE
                /\ processed' =
                       Some(IF llm.kind = "Err" THEN ErrMessage(LlmError)
                            ELSE LET formatted == trim(llm.value)
                                     final == IF formatted = <<>> THEN trimmed
                                              ELSE formatted
                                 IN  Ok(ProcessingResult(final, raw_text, tp_mode)))
    /\ UNCHANGED <<tp_mode, min_words_for_processing, raw_text>>
    /\ UNCHANGED tpFrame

\* ------------------------------------------------------- the decoder slots
\* The part of stop_recording_for_capture from its read of the active model
\* to its return, step by step, for stop tasks that follow one another or
\* overlap; run_partial_transcription; and set_active_model in between.
SlotTasks == 1..2

InitSlotsAtRest ==
    /\ current_model = WhisperModel
    /\ adapter_slot = None
    /\ loaded_slot = None
    /\ slot_lock = 0
    /\ slotPc = [i \in SlotTasks |-> "idle"]
    /\ target_model = [i \in SlotTasks |-> NoModel]
    /\ slot_result = [i \in SlotTasks |-> "none"]
    /\ transcribed = [i \in SlotTasks |-> None]
    /\ partialPc = "idle"
    /\ partial_target = NoModel
    /\ partial_on = None

\* The user makes another model the active one.
SwitchActiveModel(m) ==
    /\ current_model # m
    /\ current_model' = m
    /\ UNCHANGED <<adapter_slot, loaded_slot, slot_lock, slotPc, target_model,
                   slot_result, transcribed, partialPc, partial_target,
                   partial_on>>
    /\ UNCHANGED slotFrame

\* let target_model = crate::models::active_model_value();
SlotRead(i) ==
    /\ slotPc[i] = "idle"
    /\ target_model' = [target_model EXCEPT ![i] = current_model]
    /\ slot_result' = [slot_result EXCEPT ![i] = "none"]
    /\ transcribed' = [transcribed EXCEPT ![i] = None]
    /\ slotPc' = [slotPc EXCEPT ![i] = "lock"]
    /\ UNCHANGED <<current_model, adapter_slot, loaded_slot, slot_lock,
                   partialPc, partial_target, partial_on>>
    /\ UNCHANGED slotFrame

\* Both locks, then the test that decides between reuse and initialisation.
SlotLock(i) ==
    /\ slotPc[i] = "lock"
    /\ slot_lock = 0
    /\ slot_lock' = i
    /\ slotPc' = [slotPc EXCEPT ![i] =
                    IF adapter_slot = None \/ loaded_slot # Some(target_model[i])
                    THEN "create" ELSE "transcribe"]
    /\ UNCHANGED <<current_model, adapter_slot, loaded_slot, target_model,
                   slot_result, transcribed, partialPc, partial_target,
                   partial_on>>
    /\ UNCHANGED slotFrame

\* create_adapter()?: an Err returns with the slots as they were.
SlotCreate(i, ok) ==
    /\ slotPc[i] = "create"
    /\ IF ok
       THEN /\ slotPc' = [slotPc EXCEPT ![i] = "initialize"]
            /\ UNCHANGED <<slot_lock, slot_result>>
       ELSE /\ slotPc' = [slotPc EXCEPT ![i] = "idle"]
            /\ slot_lock' = 0
            /\ slot_result' = [slot_result EXCEPT ![i] = "create_failed"]
    /\ UNCHANGED <<current_model, adapter_slot, loaded_slot, target_model,
                   transcribed, partialPc, partial_target, partial_on>>
    /\ UNCHANGED slotFrame

\* SlotInitialize whose failure branch clears the adapter only
SlotInitializeKeepsName(i, ok) ==
    /\ slotPc[i] = "initialize"
    /\ IF ok
       THEN /\ adapter_slot' = Some(target_model[i])
            /\ slotPc' = [slotPc EXCEPT ![i] = "store"]
            /\ UNCHANGED <<slot_lock, slot_result>>
       ELSE /\ adapter_slot' = None
            /\ slotPc' = [slotPc EXCEPT ![i] = "idle"]
            /\ slot_lock' = 0
            /\ slot_result' = [slot_result EXCEPT ![i] = "init_failed"]
    /\ UNCHANGED <<current_model, loaded_slot, target_model, transcribed,
                   partialPc, partial_target, partial_on>>
    /\ UNCHANGED slotFrame

\* adapter.initialize(target_model).await: on Ok the adapter is stored, on Err
\* the closure sets *adapter_guard = None and the next step clears the name.
SlotInitialize(i, ok) ==
    /\ slotPc[i] = "initialize"
    /\ adapter_slot' = IF ok THEN Some(target_model[i]) ELSE None
    /\ slotPc' = [slotPc EXCEPT ![i] = IF ok THEN "store" ELSE "clear"]
    /\ UNCHANGED <<current_model, loaded_slot, slot_lock, target_model,
                   slot_result, transcribed, partialPc, partial_target,
                   partial_on>>
    /\ UNCHANGED slotFrame

\* *loaded_model_guard = None; and the `?` returns, releasing the locks.
SlotClear(i) ==
    /\ slotPc[i] = "clear"
    /\ loaded_slot' = None
    /\ slot_lock' = 0
    /\ slot_result' = [slot_result EXCEPT ![i] = "init_failed"]
    /\ slotPc' = [slotPc EXCEPT ![i] = "idle"]
    /\ UNCHANGED <<current_model, adapter_slot, target_model, transcribed,
                   partialPc, partial_target, partial_on>>
    /\ UNCHANGED slotFrame

\* *loaded_model_guard = Some(target_model.clone());
SlotStore(i) ==
    /\ slotPc[i] = "store"
    /\ loaded_slot' = Some(target_model[i])
    /\ slotPc' = [slotPc EXCEPT ![i] = "transcribe"]
    /\ UNCHANGED <<current_model, adapter_slot, slot_lock, target_model,
                   slot_result, transcribed, partialPc, partial_target,
                   partial_on>>
    /\ UNCHANGED slotFrame

\* adapter.transcribe on the stored adapter; Ok or Err, the function returns
\* without touching the slots and the locks are released.
SlotTranscribe(i, ok) ==
    /\ slotPc[i] = "transcribe"
    /\ transcribed' = [transcribed EXCEPT
                         ![i] = Some(<<adapter_slot[1], target_model[i]>>)]
    /\ slot_result' = [slot_result EXCEPT
                         ![i] = IF ok THEN "ok" ELSE "transcribe_failed"]
    /\ slot_lock' = 0
    /\ slotPc' = [slotPc EXCEPT ![i] = "idle"]
    /\ UNCHANGED <<current_model, adapter_slot, loaded_slot, target_model,
                   partialPc, partial_target, partial_on>>
    /\ UNCHANGED slotFrame

\* run_partial_transcription reads the active model before it waits for the
\* locks.
SlotPartialRead ==
    /\ partialPc = "idle"
    /\ partial_target' = current_model
    /\ partialPc' = "lock"
    /\ UNCHANGED <<current_model, adapter_slot, loaded_slot, slot_lock, slotPc,
                   target_model, slot_result, transcribed, partial_on>>
    /\ UNCHANGED slotFrame

\* Under both locks: return unless the adapter is loaded for the target, else
\* transcribe; the locks are released on return.
SlotPartialRun ==
    /\ partialPc = "lock"
    /\ slot_lock = 0
    /\ partial_on' =
          IF adapter_slot = None \/ loaded_slot # Some(partial_target)
          THEN None ELSE Some(<<adapter_slot[1], partial_target>>)
    /\ partialPc' = "idle"
    /\ UNCHANGED <<current_model, adapter_slot, loaded_slot, slot_lock, slotPc,
                   target_model, slot_result, transcribed, partial_target>>
    /\ UNCHANGED slotFrame

\* ------------------------------------------ the system audio of a session
MaxMuteSessions == 3

\* The ways a session ends; the first is start_recording_for_capture's Err.
SessionEnds ==
    {"start_failed", "empty", "silent", "create_failed", "init_failed",
     "transcribed", "transcribe_failed"}

InitMuteAtRest ==
    /\ mute_system_audio = TRUE
    /\ system_muted = FALSE
    /\ was_system_muted = None
    /\ mutePc = "idle"
    /\ muted_before = FALSE
    /\ session_end = "none"
    /\ mute_sessions = 0

\* Between sessions the user mutes or unmutes the output, or changes the
\* setting.
UserSetsMute(b) ==
    /\ mutePc = "idle"
    /\ system_muted # b
    /\ system_muted' = b
    /\ UNCHANGED <<mute_system_audio, was_system_muted, mutePc, muted_before,
                   session_end, mute_sessions>>
    /\ UNCHANGED muteFrame

UserSetsMuteSetting(b) ==
    /\ mutePc = "idle"
    /\ mute_system_audio # b
    /\ mute_system_audio' = b
    /\ UNCHANGED <<system_muted, was_system_muted, mutePc, muted_before,
                   session_end, mute_sessions>>
    /\ UNCHANGED muteFrame

\* Where stop_recording_for_capture calls unmute_system: in the two arms of
\* its match on adapter.transcribe.
unmute_on_path(how) == how \in {"transcribed", "transcribe_failed"}

\* start_recording_for_capture up to mute_system: with the setting on, the
\* current mute is remembered and the output muted.
MuteStart ==
    /\ mutePc = "idle"
    /\ mute_sessions < MaxMuteSessions
    /\ mute_sessions' = mute_sessions + 1
    /\ muted_before' = system_muted
    /\ session_end' = "none"
    /\ IF mute_system_audio
       THEN /\ was_system_muted' = Some(system_muted)
            /\ system_muted' = TRUE
       ELSE UNCHANGED <<was_system_muted, system_muted>>
    /\ mutePc' = "starting"
    /\ UNCHANGED mute_system_audio
    /\ UNCHANGED muteFrame

\* The rest of start: select_input_device, default_input_config,
\* build_input_stream and play, each returning its Err with `?`.
MuteStartRest(ok) ==
    /\ mutePc = "starting"
    /\ mutePc' = IF ok THEN "recording" ELSE "ended"
    /\ session_end' = IF ok THEN session_end ELSE "start_failed"
    /\ UNCHANGED <<mute_system_audio, system_muted, was_system_muted,
                   muted_before, mute_sessions>>
    /\ UNCHANGED muteFrame

\* unmute_system: take() the remembered value and unmute if it was false.
MuteStop(how) ==
    /\ mutePc = "recording"
    /\ how # "start_failed"
    /\ IF unmute_on_path(how)
       THEN /\ was_system_muted' = None
            /\ system_muted' =
                  IF was_system_muted = Some(FALSE) THEN FALSE ELSE system_muted
       ELSE UNCHANGED <<was_system_muted, system_muted>>
    /\ session_end' = how
    /\ mutePc' = "ended"
    /\ UNCHANGED <<mute_system_audio, muted_before, mute_sessions>>
    /\ UNCHANGED muteFrame

\* The session is over; the next one can start.
MuteIdle ==
    /\ mutePc = "ended"
    /\ mutePc' = "idle"
    /\ UNCHANGED <<mute_system_audio, system_muted, was_system_muted,
                   muted_before, session_end, mute_sessions>>
    /\ UNCHANGED muteFrame

\* ------------------------------------- the settings store and its callers
\* The three functions of the claim, each called once.
StoreCallers == {"update_analytics", "set_input_device_id", "set_shortcuts"}

\* The fields of AppStore the three callers write.
AppStore(n, d, s) == [sessions_count |-> n, input_device |-> d, push_to_talk |-> s]

InitStoreCallsAtRest ==
    /\ STORE = AppStore(0, None, "Fn")
    /\ store_file = STORE
    /\ callPc = [c \in StoreCallers |-> "idle"]
    /\ call_store = [c \in StoreCallers |-> STORE]
    /\ new_device = "mic1"
    /\ new_shortcut = "F6"

\* What each caller does to its local copy between get_store and save_store.
Updated(c, store) ==
    CASE c = "update_analytics" ->
           [store EXCEPT !.sessions_count = @ + 1]
      [] c = "set_input_device_id" ->
           [store EXCEPT !.input_device = Some(new_device)]
      [] c = "set_shortcuts" ->
           [store EXCEPT !.push_to_talk = new_shortcut]

\* let mut store = get_store(): a clone taken under the mutex, which is
\* released at once; then the caller's change to the clone.
GetStore(c) ==
    /\ callPc[c] = "idle"
    /\ call_store' = [call_store EXCEPT ![c] = Updated(c, STORE)]
    /\ callPc' = [callPc EXCEPT ![c] = "save"]
    /\ UNCHANGED <<STORE, store_file, new_device, new_shortcut>>
    /\ UNCHANGED rmwFrame

\* save_store: fs::write of the whole clone.
SaveStoreFile(c) ==
    /\ callPc[c] = "save"
    /\ store_file' = call_store[c]
    /\ callPc' = [callPc EXCEPT ![c] = "memory"]
    /\ UNCHANGED <<STORE, call_store, new_device, new_shortcut>>
    /\ UNCHANGED rmwFrame

\* save_store: *lock = store.clone(), and the caller returns.
SaveStoreMemory(c) ==
    /\ callPc[c] = "memory"
    /\ STORE' = call_store[c]
    /\ callPc' = [callPc EXCEPT ![c] = "done"]
    /\ UNCHANGED <<store_file, call_store, new_device, new_shortcut>>
    /\ UNCHANGED rmwFrame

\* ------------------------------------------ the paste target of a session
\* No session has called remember_active_paste_target yet.
InitTargetAtRest == session_target = None

\* What capture_active_paste_target finds in front: None where it returns
\* without storing anything (macOS: the query failed, no valid pid, or the
\* process's own pid; Windows: a null foreground window).
FrontmostTarget ==
    IF platform = "macos"
    THEN IF foreground = "none" \/ foreground = "self" THEN None
         ELSE Some(foreground)
    ELSE IF foreground = "none" THEN None ELSE Some(foreground)

\* start_capture's remember_active_paste_target, with the sessions taken one
\* after another: the slot is written only when something was found, and
\* nothing clears it.
remember_active_paste_target ==
    /\ injPc = "idle"
    /\ session_target' = FrontmostTarget
    /\ paste_target' =
          IF FrontmostTarget = None THEN paste_target ELSE FrontmostTarget
    /\ UNCHANGED <<platform, foreground, clipboard, injPc, injText, snapshot,
                   attempt, clipBefore, deliveries>>
    /\ UNCHANGED <<sessionVars, dlVars, cacheVars, decVars, hkVars, tgtPeers>>

InitMoreAtRest ==
    InitTailAtRest /\ InitStoreAtRest /\ InitModelsAtRest /\ InitPrepareAtRest

InitLateAtRest ==
    /\ InitSnippetsAtRest
    /\ InitProcessorAtRest
    /\ InitTargetAtRest
    /\ InitSlotsAtRest
    /\ InitMuteAtRest
    /\ InitStoreCallsAtRest

\* The same with one group left to the specification that moves it.
InitLateExcept(group) ==
    /\ IF group = "snip" THEN TRUE ELSE InitSnippetsAtRest
    /\ IF group = "tp" THEN TRUE ELSE InitProcessorAtRest
    /\ IF group = "tgt" THEN TRUE ELSE InitTargetAtRest
    /\ IF group = "slot" THEN TRUE ELSE InitSlotsAtRest
    /\ IF group = "mute" THEN TRUE ELSE InitMuteAtRest
    /\ IF group = "rmw" THEN TRUE ELSE InitStoreCallsAtRest







InitRestAtRest ==
    /\ InitCacheAtRest
    /\ InitDecoderAtRest
    /\ InitHotkeyAtRest
    /\ InitMoreAtRest
    /\ InitLateAtRest

\* ========================================================= specifications
\* The session orchestrator on a macOS build, the injector and the
\* downloads at rest.
Init ==
    /\ InitSession
    /\ platform = "macos"
    /\ clipboard = Clip(None, None, None, None)
    /\ InitInjectorAtRest
    /\ InitDownloadAtRest
    /\ InitRestAtRest

Next ==
    \/ \E c \in Callers : StartCheck(c)
    \/ \E c \in Callers : StartClear(c)
    \/ \E c \in Callers : StartBuild(c)
    \/ \E c \in Callers : StartStore(c)
    \/ \E s \in Sids, a \in Amplitudes : AudioCallback(s, a)
    \/ \E i \in StopIds, o \in Callers : StopRequest(i, o)
    \/ \E i \in StopIds : StopBegin(i)
    \/ \E i \in StopIds : StopTake(i)
    \/ \E i \in StopIds : StopDrain(i)
    \/ \E i \in StopIds : StopInit(i)
    \/ \E i \in StopIds : StopTranscribe(i)
    \/ \E s \in Sids : PartialPoll(s)
    \/ \E s \in Sids : PartialDecode(s)

Spec == Init /\ [][Next]_vars

\* The session orchestrator driven by the hotkey machine alone: presses and
\* releases, with no start_recording or stop_recording command in between.
NextPressRelease ==
    \/ StartCheck("hotkey")
    \/ StartClear("hotkey")
    \/ StartBuild("hotkey")
    \/ StartStore("hotkey")
    \/ \E s \in Sids, a \in Amplitudes : AudioCallback(s, a)
    \/ \E i \in StopIds : StopRequest(i, "hotkey")
    \/ \E i \in StopIds : StopBegin(i)
    \/ \E i \in StopIds : StopTake(i)
    \/ \E i \in StopIds : StopDrain(i)
    \/ \E i \in StopIds : StopInit(i)
    \/ \E i \in StopIds : StopTranscribe(i)
    \/ \E s \in Sids : PartialPoll(s)
    \/ \E s \in Sids : PartialDecode(s)

SpecPressRelease == Init /\ [][NextPressRelease]_vars

\* The injector and the foreground-target capture, on either build and with
\* any clipboard content.
InitInjector ==
    /\ InitSession
    /\ platform \in {"macos", "windows"}
    /\ clipboard \in Contents
    /\ InitInjectorAtRest
    /\ InitDownloadAtRest
    /\ InitRestAtRest

NextInjector ==
    \/ \E w \in Applications \cup {"none"} : FocusChange(w)
    \/ \E c \in Contents : UserCopies(c)
    \/ capture_active_paste_target
    \/ \E t \in InjTexts : InjectBegin(t)
    \/ \E ok, focusOk \in BOOLEAN : InjectOpen(ok, focusOk)
    \/ \E ok, focusOk \in BOOLEAN : InjectStage(ok, focusOk)
    \/ \E scriptOk, focusOk \in BOOLEAN : InjectPaste(scriptOk, focusOk)
    \/ \E ok \in BOOLEAN : InjectRestore(ok)
    \/ InjectReturn

SpecInjector == InitInjector /\ [][NextInjector]_vars

\* The injector with the capture of each session's start recorded.
NextTarget ==
    \/ \E w \in Applications \cup {"none"} : FocusChange(w)
    \/ remember_active_paste_target
    \/ \E t \in InjTexts : InjectBegin(t)
    \/ \E ok, focusOk \in BOOLEAN : InjectOpen(ok, focusOk)
    \/ \E ok, focusOk \in BOOLEAN : InjectStage(ok, focusOk)
    \/ \E scriptOk, focusOk \in BOOLEAN : InjectPaste(scriptOk, focusOk)
    \/ \E ok \in BOOLEAN : InjectRestore(ok)
    \/ InjectReturn

SpecTarget == InitInjector /\ [][NextTarget]_vars

\* The decoder slots under two stop tasks, the partial loop and a user who
\* switches the active model.
InitSlots ==
    /\ InitSession
    /\ platform = "macos"
    /\ clipboard = Clip(None, None, None, None)
    /\ InitInjectorAtRest
    /\ InitDownloadAtRest
    /\ InitCacheAtRest
    /\ InitDecoderAtRest
    /\ InitHotkeyAtRest
    /\ InitMoreAtRest
    /\ InitLateAtRest

NextSlots ==
    \/ \E m \in Models : SwitchActiveModel(m)
    \/ \E i \in SlotTasks :
         \/ SlotRead(i)
         \/ SlotLock(i)
         \/ \E ok \in BOOLEAN : SlotCreate(i, ok)
         \/ \E ok \in BOOLEAN : SlotInitialize(i, ok)
         \/ SlotClear(i)
         \/ SlotStore(i)
         \/ \E ok \in BOOLEAN : SlotTranscribe(i, ok)
    \/ SlotPartialRead
    \/ SlotPartialRun

SpecSlots == InitSlots /\ [][NextSlots]_vars

\* The system audio over a few sessions, each ending one of the seven ways.
InitMute ==
    /\ InitSession
    /\ platform = "macos"
    /\ clipboard = Clip(None, None, None, None)
    /\ InitInjectorAtRest
    /\ InitDownloadAtRest
    /\ InitCacheAtRest
    /\ InitDecoderAtRest
    /\ InitHotkeyAtRest
    /\ InitMoreAtRest
    /\ InitLateExcept("mute")
    /\ mute_system_audio \in BOOLEAN
    /\ system_muted \in BOOLEAN
    /\ was_system_muted = None
    /\ mutePc = "idle"
    /\ muted_before = system_muted
    /\ session_end = "none"
    /\ mute_sessions = 0

NextMute ==
    \/ \E b \in BOOLEAN : UserSetsMute(b)
    \/ \E b \in BOOLEAN : UserSetsMuteSetting(b)
    \/ MuteStart
    \/ \E ok \in BOOLEAN : MuteStartRest(ok)
    \/ \E how \in SessionEnds : MuteStop(how)
    \/ MuteIdle

SpecMute == InitMute /\ [][NextMute]_vars

\* update_analytics, set_input_device_id and set_shortcuts called once each,
\* from different threads, on any store.
InitStoreCalls ==
    /\ InitSession
    /\ platform = "macos"
    /\ clipboard = Clip(None, None, None, None)
    /\ InitInjectorAtRest
    /\ InitDownloadAtRest
    /\ InitCacheAtRest
    /\ InitDecoderAtRest
    /\ InitHotkeyAtRest
    /\ InitMoreAtRest
    /\ InitLateExcept("rmw")
    /\ STORE \in {AppStore(n, d, "Fn") : n \in {0, 1}, d \in {None, Some("mic0")}}
    /\ store_file = STORE
    /\ callPc = [c \in StoreCallers |-> "idle"]
    /\ call_store = [c \in StoreCallers |-> STORE]
    /\ new_device \in {"mic1", "mic2"}
    /\ new_shortcut \in {"F6", "F7"}

NextStoreCalls ==
    \E c \in StoreCallers :
        \/ GetStore(c)
        \/ SaveStoreFile(c)
        \/ SaveStoreMemory(c)

SpecStoreCalls == InitStoreCalls /\ [][NextStoreCalls]_vars

\* The download_model command over the whisper and the sherpa backend.
MaxFileUnits == 4

RequestResults == {"ok", "http404", "network", "permission"}
ReadResults == {"ok", "network", "disk"}
FinishResults == {"ok", "disk", "permission"}

InitDownload ==
    /\ InitSession
    /\ platform \in {"macos", "windows"}
    /\ clipboard = Clip(None, None, None, None)
    /\ InitInjectorAtRest
    /\ InitDownloadAtRest
    /\ InitRestAtRest

NextDownload ==
    \/ \E m \in Models : DownloadCommand(m)
    \/ CreateAdapter
    \/ \E dirOk \in BOOLEAN : ResolveModel(dirOk)
    \/ \E res \in RequestResults, size \in 1..MaxFileUnits, known \in BOOLEAN :
          RequestFile(res, size, known)
    \/ \E res \in ReadResults : ReadChunk(res)
    \/ \E res \in FinishResults : FinishFile(res)
    \/ \E ok \in BOOLEAN : LoadModel(ok)
    \/ CommandFinish

SpecDownload == InitDownload /\ [][NextDownload]_vars

\* Concurrent downloads of one whisper model into the cache directory.
InitCache ==
    /\ InitSession
    /\ platform \in {"macos", "windows"}
    /\ clipboard = Clip(None, None, None, None)
    /\ InitInjectorAtRest
    /\ InitDownloadAtRest
    /\ InitRestAtRest

NextCache ==
    \/ \E t \in CacheTasks : CacheResolve(t)
    \/ \E t \in CacheTasks, ok \in BOOLEAN : CacheCreate(t, ok)
    \/ \E t \in CacheTasks, ok \in BOOLEAN : CacheWrite(t, ok)
    \/ \E t \in CacheTasks, ok \in BOOLEAN : CacheRename(t, ok)

SpecCache == InitCache /\ [][NextCache]_vars

\* The whisper backend's transcribe over every configured language and every
\* decoder output.
InitDecoder ==
    /\ InitSession
    /\ platform = "macos"
    /\ clipboard = Clip(None, None, None, None)
    /\ InitInjectorAtRest
    /\ InitDownloadAtRest
    /\ InitRestAtRest

NextDecoder ==
    \/ \E caller \in DecCallers, language \in LanguageOverrides :
          Initialize(caller, language)
    \/ TranscribeBegin
    \/ \E raw \in RawOutputs, ok \in BOOLEAN : DecodePrimary(raw, ok)
    \/ \E raw \in RawOutputs, detected \in DetectedLanguages, ok \in BOOLEAN :
          DecodeAuto(raw, detected, ok)
    \/ \E raw \in RawOutputs, ok \in BOOLEAN : DecodePermissive(raw, ok)
    \/ TranscribeReturn

SpecDecoder == InitDecoder /\ [][NextDecoder]_vars

\* The hotkey machine over every stored pair of shortcuts and every
\* keyboard event, with the orchestrator answering each start.
InitHotkeys ==
    /\ InitSession
    /\ platform \in {"macos", "windows"}
    /\ clipboard = Clip(None, None, None, None)
    /\ InitInjectorAtRest
    /\ InitDownloadAtRest
    /\ InitCacheAtRest
    /\ InitDecoderAtRest
    /\ InitMoreAtRest
    /\ InitLateAtRest
    /\ \E settings \in ShortcutSettings : InitHotkey(settings)

NextHotkeys ==
    \/ \E m \in Modifiers, down \in BOOLEAN, r \in StartResults :
          FlagsChanged(m, down, r)
    \/ \E k \in KeyTokens, r \in StartResults : KeyDown(k, r)
    \/ \E k \in KeyTokens, r \in StartResults : KeyUp(k, r)

SpecHotkeys == InitHotkeys /\ [][NextHotkeys]_vars

\* The default shortcuts under the Fn and Space keys alone.
InitChord ==
    /\ InitSession
    /\ platform \in {"macos", "windows"}
    /\ clipboard = Clip(None, None, None, None)
    /\ InitInjectorAtRest
    /\ InitDownloadAtRest
    /\ InitRestAtRest

NextChord ==
    \E ev \in ChordEvents, r \in StartResults : ChordEvent(ev, r)

SpecChord == InitChord /\ [][NextChord]_vars

\* The hotkey machine under the user's keys and the injector's paste chord.
InitSynthetic ==
    /\ InitSession
    /\ platform \in {"macos", "windows"}
    /\ clipboard = Clip(None, None, None, None)
    /\ InitInjectorAtRest
    /\ InitDownloadAtRest
    /\ InitCacheAtRest
    /\ InitDecoderAtRest
    /\ InitMoreAtRest
    /\ InitLateAtRest
    /\ \E settings \in ShortcutSettings : InitHotkey(settings)

NextSynthetic ==
    \/ \E r \in StartResults : FlagsChanged("fn", ~fn_down, r)
    \/ \E r \in StartResults : KeyDown("space", r)
    \/ \E r \in StartResults : KeyUp("space", r)
    \/ \E r \in StartResults : PasteChordEvent(r)

SpecSynthetic == InitSynthetic /\ [][NextSynthetic]_vars

\* The tail of a stop: formatting, snippets, paste and the closing events.
InitTail ==
    /\ InitSession
    /\ platform \in {"macos", "windows"}
    /\ clipboard = Clip(None, None, None, None)
    /\ InitInjectorAtRest
    /\ InitDownloadAtRest
    /\ InitRestAtRest

NextTail ==
    \/ \E text \in ResultTexts, enabled \in BOOLEAN, list \in SnippetLists :
           TranscribeOk(text, enabled, list)
    \/ \E formatting \in FormatOutcomes : FormatTranscript(formatting)
    \/ PasteFinalText
    \/ EmitFinalAndIdle

SpecTail == InitTail /\ [][NextTail]_vars

\* parse_shortcut on every string of up to MaxParts parts.
InitParse ==
    /\ InitSession
    /\ platform \in {"macos", "windows"}
    /\ clipboard = Clip(None, None, None, None)
    /\ InitInjectorAtRest
    /\ InitDownloadAtRest
    /\ InitCacheAtRest
    /\ InitDecoderAtRest
    /\ InitHotkeyAtRest
    /\ InitTailAtRest
    /\ InitModelsAtRest
    /\ InitPrepareAtRest
    /\ InitLateAtRest
    /\ raw_shortcut \in RawShortcuts
    /\ parse_result = None
    /\ shortcuts = DefaultShortcuts
    /\ last_set = None

NextParse == ParseShortcut

SpecParse == InitParse /\ [][NextParse]_vars

\* The settings window setting the shortcuts, again and again.
InitShortcuts ==
    /\ InitSession
    /\ platform = "macos"
    /\ clipboard = Clip(None, None, None, None)
    /\ InitInjectorAtRest
    /\ InitDownloadAtRest
    /\ InitRestAtRest

NextShortcuts ==
    \E push \in ShortcutInputs, hands_free \in ShortcutInputs,
       command \in CommandInputs : set_shortcuts(push, hands_free, command)

SpecShortcuts == InitShortcuts /\ [][NextShortcuts]_vars

\* The two model commands side by side, over any set of downloaded models.
InitModels ==
    /\ InitSession
    /\ platform \in {"macos", "windows"}
    /\ clipboard = Clip(None, None, None, None)
    /\ InitInjectorAtRest
    /\ handler = "none"
    /\ progress = <<>>
    /\ dlPc = "idle"
    /\ dlModel = WhisperModel
    /\ dlResult = "none"
    /\ remote = 0
    /\ total_bytes = 0
    /\ downloaded_bytes = 0
    /\ last_emitted = 0
    /\ fileIdx = 0
    /\ finalFile \in [Models -> BOOLEAN]
    /\ tmpFile = [m \in Models |-> -1]
    /\ InitRestAtRest

NextModels ==
    \/ \E m \in Models : DeleteBegin(m)
    \/ DeleteAvailable
    \/ DeleteRemove
    \/ \E m \in Models : SetActiveBegin(m)
    \/ SetActiveAvailable
    \/ SetActiveStore

SpecModels == InitModels /\ [][NextModels]_vars

\* prepare_audio on every buffer of up to MaxAudio samples, in every format.
InitPrepare ==
    /\ InitSession
    /\ platform \in {"macos", "windows"}
    /\ clipboard = Clip(None, None, None, None)
    /\ InitInjectorAtRest
    /\ InitDownloadAtRest
    /\ InitCacheAtRest
    /\ InitDecoderAtRest
    /\ InitHotkeyAtRest
    /\ InitTailAtRest
    /\ InitStoreAtRest
    /\ InitModelsAtRest
    /\ InitLateAtRest
    /\ audio_data \in AudioBuffers
    /\ format \in AudioFormats
    /\ prepared = None

NextPrepare == PrepareAudio

SpecPrepare == InitPrepare /\ [][NextPrepare]_vars

\* apply_snippets twice over, on every text of up to MaxText characters and
\* every list of up to MaxSnippets snippets.
InitSnippets ==
    /\ InitSession
    /\ platform = "macos"
    /\ clipboard = Clip(None, None, None, None)
    /\ InitInjectorAtRest
    /\ InitDownloadAtRest
    /\ InitCacheAtRest
    /\ InitDecoderAtRest
    /\ InitHotkeyAtRest
    /\ InitMoreAtRest
    /\ InitLateExcept("snip")
    /\ snippet_text \in SnippetTexts
    /\ snippet_list \in SnippetListsUpTo
    /\ expansions = <<>>

NextSnippets == ExpandSnippets

SpecSnippets == InitSnippets /\ [][NextSnippets]_vars

\* TextProcessor::process on every text of up to MaxRaw characters, in every
\* mode.
InitProcessor ==
    /\ InitSession
    /\ platform = "macos"
    /\ clipboard = Clip(None, None, None, None)
    /\ InitInjectorAtRest
    /\ InitDownloadAtRest
    /\ InitCacheAtRest
    /\ InitDecoderAtRest
    /\ InitHotkeyAtRest
    /\ InitMoreAtRest
    /\ InitLateExcept("tp")
    /\ tp_mode \in FormattingModes
    /\ min_words_for_processing \in {1, DefaultMinWords}
    /\ raw_text \in RawTexts
    /\ llm_called = FALSE
    /\ processed = None

NextProcessor == \E llm \in LlmOutcomes : Process(llm)

SpecProcessor == InitProcessor /\ [][NextProcessor]_vars

\* ------------------------------------------------- properties of a session
IsStatus(e) == e \in {"listening", "processing", "idle", "error"}

StatusEvents(s) == SelectSeq(events[s], IsStatus)

\* The place of an event in a session's order; -1 for the events the order
\* does not mention.
Rank(e) ==
    CASE e = "listening"  -> 0
      [] e = "level"      -> 1
      [] e = "processing" -> 2
      [] e = "final"      -> 3
      [] e = "idle"       -> 4
      [] OTHER            -> -1

Failures ==
    {"device_failed", "stream_failed", "create_failed", "init_failed",
     "transcribe_failed"}

\* A stop task has taken the stream and has not yet emitted its last event.
StopInFlight == \E i \in StopIds : stopPc[i] \in {"drain", "lock", "transcribe"}

\* C1: at most one capture session is active at any instant: no second input
\* stream is ever open beside the first.
C1_SingleSession == Cardinality(openStreams) <= 1

\* C2: within one session the events come in the order listening, audio
\* levels, processing, final result, idle; each of them but the audio level
\* comes at most once, and no audio level follows processing.
C2_EventOrder ==
    \A s \in Sids : \A i, j \in 1..Len(events[s]) :
        (i < j /\ Rank(events[s][i]) >= 0 /\ Rank(events[s][j]) >= 0) =>
            /\ Rank(events[s][i]) <= Rank(events[s][j])
            /\ Rank(events[s][i]) = Rank(events[s][j]) => events[s][i] = "level"

\* A session that ran from listening through audio levels, processing and a
\* final result to idle.
C2_Witness ==
    \E s \in Sids :
        /\ Has(s, "listening") /\ Has(s, "level") /\ Has(s, "processing")
        /\ Has(s, "final") /\ Has(s, "idle")

\* C3: a start request issued after a stop, before that stop's idle or error
\* has been emitted, does not begin a new session.
C3_NoStartDuringStop ==
    [][(\E c \in Callers : startPc[c] = "idle" /\ startPc'[c] = "clear")
          => ~StopInFlight]_vars

\* C4: no transcription-result with is_final=false is emitted after the
\* is_final=true result of the same session.
C4_NoPartialAfterFinal ==
    \A s \in Sids : \A i, j \in 1..Len(events[s]) :
        ~(i < j /\ events[s][i] = "final" /\ events[s][j] = "partial")

\* C5: a stop that finds the buffer empty or its RMS below 0.003 ends the
\* session with status=idle, without a decoder call, a final result or an
\* injection: its status events are exactly listening, processing, idle.
C5_SilenceEndsIdle ==
    \A s \in Sids : outcome[s] \in {"empty", "silent"} =>
        /\ StatusEvents(s) = <<"listening", "processing", "idle">>
        /\ ~Has(s, "final")
        /\ decoderCalls[s] = 0
        /\ ~injected[s]

\* C6: every failure other than the injector's (device selection, stream
\* opening, adapter creation, adapter initialisation, transcription) emits
\* status=error.
C6_FailureEmitsError ==
    \A s \in Sids : outcome[s] \in Failures => Has(s, "error")

\* ------------------------------------------------ properties of the injector
\* C7: whatever the clipboard held immediately before an injection of
\* non-empty text, it holds the same again once the injector has returned.
C7_ClipboardPreserved ==
    (injPc = "done" /\ ~TrimIsEmpty(injText)) => clipboard = clipBefore

\* C8: the foreground-target capture never stores the core's own process or
\* window as the paste target, on macOS and on Windows alike.
C8_NeverTargetsSelf == paste_target # Some("self")

\* ----------------------------------------------- properties of a download
\* C9: a download emits exactly one progress event with done=true; its stage
\* is ready or error, no event follows it, and a finished download has it.
C9_OneTerminalEvent ==
    /\ \A k \in 1..Len(progress) :
          progress[k].done =>
              k = Len(progress) /\ progress[k].stage \in {"ready", "error"}
    /\ (dlPc = "idle" /\ progress # <<>>) => progress[Len(progress)].done

\* C10: within one download downloaded_bytes never decreases from one
\* emitted progress event to the next, the terminal event included.
C10_MonotoneBytes ==
    \A j, k \in 1..Len(progress) :
        j < k => progress[j].downloaded_bytes <= progress[k].downloaded_bytes

\* C11: a download that has failed leaves no temporary artifact in the cache
\* directory: the temporary file is gone when the error is returned.
C11_NoPartialFileAfterFailure ==
    (dlPc \in {"finish", "idle"} /\ dlResult \notin {"none", "ok"}) =>
        tmpFile[dlModel] = -1

\* ------------------------------------------- properties of the model cache
\* C12: whenever a file is at the model's final path, so that the model is
\* reported available, that file is completely written.
C12_ReadyMeansComplete == output_path # 0 => Complete(output_path)

\* C13: a download whose remote responds 404 ends with a done=true event of
\* stage error whose user-facing error is the "not found" message, which is
\* none of the network, permission and disk-full messages.
C13_NotFoundMessage ==
    (dlPc = "idle" /\ dlResult = "http404") =>
        LET last == progress[Len(progress)]
        IN  /\ last.done
            /\ last.stage = "error"
            /\ last.error = NotFoundMessage
            /\ last.error \notin {NetworkMessage, PermissionMessage, DiskFullMessage}

\* ------------------------------------------------ properties of the decoder
Pinned == requested_language(config_language) # None

CallHasOutput(c) == c.result.kind = "Ok" /\ HasOutput(c.result.value)

CallIsEmpty(c) == c.result.kind = "Ok" /\ ~HasOutput(c.result.value)

IsCall(c, profile, language) == c.profile = profile /\ c.language = language

\* C14: a transcribe request first runs the primary profile with the biased
\* language and returns its result if non-empty; otherwise, only when no
\* language is pinned, it re-runs the primary profile with auto-detect; if
\* the result is still empty it runs the permissive profile with the biased
\* language and returns that result even if empty.  One decoder call when
\* the first result is non-empty, at most two when a language is pinned, at
\* most three otherwise, in this order.
C14_DecisionTree ==
    decPc = "done" =>
        LET n == Len(calls)
            biased == preferred_language(config_language)
        IN  /\ n >= 1
            /\ n <= (IF Pinned THEN 2 ELSE 3)
            /\ IsCall(calls[1], "Primary", biased)
            /\ CallHasOutput(calls[1]) => n = 1
            /\ CallIsEmpty(calls[1]) => n >= 2
            /\ n >= 2 => CallIsEmpty(calls[1])
            /\ (n >= 2 /\ Pinned) => IsCall(calls[2], "PermissiveFallback", biased)
            /\ (n >= 2 /\ ~Pinned) =>
                   /\ IsCall(calls[2], "Primary", None)
                   /\ CallHasOutput(calls[2]) => n = 2
                   /\ CallIsEmpty(calls[2]) => n = 3
            /\ n = 3 =>
                   /\ CallIsEmpty(calls[2])
                   /\ IsCall(calls[3], "PermissiveFallback", biased)
            /\ decReturn = calls[n].result

\* a request without a pinned language that took all three calls and got
\* its text from the permissive one
C14_Witness ==
    /\ decPc = "done"
    /\ ~Pinned
    /\ Len(calls) = 3
    /\ decReturn.kind = "Ok"
    /\ decReturn.value.text # <<>>

\* C15 as stated: when the primary-profile decode of a session's audio
\* returns empty text, the second call made to the decoder uses the
\* permissive settings, and the final transcript of the session is the
\* output of that permissive call.
C15_SecondCallPermissive ==
    (decCaller = "session" /\ decPc = "done" /\ CallIsEmpty(calls[1])) =>
        /\ Len(calls) >= 2
        /\ calls[2].profile = "PermissiveFallback"
        /\ decReturn = calls[2].result

\* C15 amended: when the primary-profile decode of a session's audio returns
\* empty, the second call re-runs the primary profile with language
\* auto-detect; its output, if any, is the final transcript; if it is empty
\* too, the third call uses the permissive settings with the "en" bias and
\* the final transcript is the output of that permissive call.  A failed
\* call ends the request with its error.
C15_PermissiveAfterAutoDetect ==
    (decCaller = "session" /\ decPc = "done" /\ CallIsEmpty(calls[1])) =>
        /\ Len(calls) >= 2
        /\ IsCall(calls[2], "Primary", None)
        /\ ~CallIsEmpty(calls[2]) =>
               /\ Len(calls) = 2
               /\ decReturn = calls[2].result
        /\ CallIsEmpty(calls[2]) =>
               /\ Len(calls) = 3
               /\ IsCall(calls[3], "PermissiveFallback", Some(En))
               /\ decReturn = calls[3].result

\* a session whose first two decodes were empty and whose transcript is the
\* permissive call's
C15_Witness ==
    /\ decCaller = "session"
    /\ decPc = "done"
    /\ CallIsEmpty(calls[1])
    /\ Len(calls) = 3
    /\ CallIsEmpty(calls[2])
    /\ calls[3].profile = "PermissiveFallback"
    /\ decReturn = calls[3].result

\* ----------------------------------------- properties of the hotkey machine
Keyboard ==
    KeyState(fn_down, ctrl_down, shift_down, alt_down, meta_down, pressed_keys)

ModifiersDown == {m \in Modifiers : ModifierDown(m)}

Required(spec) ==
    {m \in Modifiers :
        CASE m = "fn"    -> spec.fn
          [] m = "ctrl"  -> spec.ctrl
          [] m = "shift" -> spec.shift
          [] m = "alt"   -> spec.alt
          [] OTHER       -> spec.meta}

AllShortcutSpecs ==
    {ShortcutSpec(mods, key) :
        mods \in SUBSET Modifiers, key \in {None} \cup {Some(k) : k \in KeyTokens}}
    \ {ShortcutSpec({}, None)}

\* C16: a shortcut is active iff every modifier its spec requires is down
\* and, when the spec names a non-modifier key, the pressed-key set is
\* exactly that key; a spec without a key is active whatever keys are
\* pressed.
C16_ActiveIff ==
    \A spec \in AllShortcutSpecs :
        is_shortcut_active(spec, Keyboard) <=>
            /\ Required(spec) \subseteq ModifiersDown
            /\ spec.key # None => pressed_keys = {spec.key[1]}

\* Fn and two keys are down: fn is active, fn+space is not
C16_Witness ==
    /\ fn_down
    /\ pressed_keys = {"space", "k"}
    /\ is_shortcut_active(DefaultPushToTalk, Keyboard)
    /\ ~is_shortcut_active(DefaultHandsFree, Keyboard)

HandsFreeActive == is_shortcut_active(hands_free_toggle, Keyboard)

PushToTalkActive == is_shortcut_active(push_to_talk, Keyboard)

\* C17: is_hands_free flips exactly on the events that take the hands-free
\* shortcut from inactive to active; an event that finds it still active (a
\* key repeat, an unrelated key or modifier) and the event that makes it
\* inactive leave is_hands_free as it was.
C17_FlipOnRisingEdge ==
    [][(is_hands_free' # is_hands_free) <=> (~HandsFreeActive /\ HandsFreeActive')]_vars

\* hands-free was switched on and the shortcut has been released since
C17_Witness ==
    /\ is_hands_free
    /\ ~HandsFreeActive
    /\ ~hands_free_combo_prev_active
    /\ pressed_keys = {}
    /\ ModifiersDown = {}

StartsSucceed == \A i \in 1..Len(requests) : requests[i].result = "Ok"

Alternate(reqs) ==
    \A i \in 1..Len(reqs) :
        reqs[i].request = (IF i % 2 = 1 THEN "start" ELSE "stop")

\* C18: after the machine has processed an event, is_push_active is false
\* whenever is_hands_free is true (it is the push-to-talk shortcut's activity
\* otherwise); with should_record = is_hands_free OR is_push_active, a start
\* request is sent exactly when should_record is true and recording_active
\* was false, a stop request exactly when should_record is false and
\* recording_active was true; when the starts succeed the requests alternate
\* beginning with start and recording_active equals should_record.
C18_RequestsFollowShouldRecord ==
    [][LET should_record == is_hands_free' \/ is_push_active'
           sent == IF requests' = requests THEN "none"
                   ELSE requests'[Len(requests')].request
       IN  /\ is_hands_free' => ~is_push_active'
           /\ is_push_active' = (~is_hands_free' /\ PushToTalkActive')
           /\ Len(requests') <= Len(requests) + 1
           /\ SubSeq(requests', 1, Len(requests)) = requests
           /\ (sent = "start") <=> (should_record /\ ~is_recording_active)
           /\ (sent = "stop") <=> (~should_record /\ is_recording_active)
           /\ StartsSucceed' =>
                  /\ Alternate(requests')
                  /\ is_recording_active' = should_record]_vars

\* a second session is running in hands-free mode while the push-to-talk
\* shortcut is held
C18_Witness ==
    /\ Len(requests) = 3
    /\ StartsSucceed
    /\ is_hands_free
    /\ PushToTalkActive
    /\ ~is_push_active
    /\ is_recording_active

\* ------------------------------------------- properties of the Fn+Space chord
FnDown == Event("FlagsChanged", "fn", TRUE)
FnUp == Event("FlagsChanged", "fn", FALSE)
SpaceDown == Event("KeyDown", "space", TRUE)
SpaceUp == Event("KeyUp", "space", FALSE)

\* the two keys of the chord go down in either order and come up in either
\* order
ChordPresses == {<<FnDown, SpaceDown>>, <<SpaceDown, FnDown>>}
ChordReleases == {<<FnUp, SpaceUp>>, <<SpaceUp, FnUp>>}

ChordTwice ==
    {p1 \o r1 \o p2 \o r2 :
        p1 \in ChordPresses, r1 \in ChordReleases,
        p2 \in ChordPresses, r2 \in ChordReleases}

IsPrefix(s, t) == Len(s) <= Len(t) /\ SubSeq(t, 1, Len(s)) = s

C20_FnReleaseClearsCompanion ==
    [][(fn_down /\ ~fn_down' /\ pressed_keys # {}) => pressed_keys' = {}]_vars

\* ------------------------------------ properties of the synthetic keystrokes
\* C21: the key events of the injector's paste chord, observed by the hotkey
\* machine, send no start or stop request and do not flip is_hands_free,
\* whatever shortcuts set_shortcuts has stored.
C21_SyntheticKeysIgnored ==
    [][keylog' # keylog =>
           (requests' = requests /\ is_hands_free' = is_hands_free)]_vars

\* ------------------------------------- more properties of the injector
\* C22: called with empty or whitespace-only text, the injector returns
\* success at once: it has not read the clipboard (no snapshot), not written
\* it, not restored the focus and not synthesised a keystroke.
C22_BlankTextIsNoOp ==
    (injPc # "idle" /\ TrimIsEmpty(injText)) =>
        /\ injPc = "done"
        /\ snapshot = NoSnapshot
        /\ clipboard = clipBefore
        /\ attempt = 0
        /\ deliveries = <<>>

\* a whitespace-only text has come back while the clipboard holds content
C22_Witness ==
    /\ injPc = "done"
    /\ injText = <<" ">>
    /\ clipboard = Clip(Some(OldHtml), Some(OldText), None, None)
    /\ paste_target # None

FinalEvent == uiEvents[2 * tails - 1]

TailEnded == fmtPc = "idle" /\ tails > 0

\* The text snippets are applied to: the formatter's output when the
\* formatting step ran and succeeded, the transcript otherwise.
TextAfterFormatting ==
    IF fmtOutcome[1] = "Ok" THEN fmtOutcome[2] ELSE result_text

\* C24: when the formatting step fails (the processor cannot be
\* initialized, or process returns an error) the session goes on: the text
\* handed to the injector is the transcript itself, and the session ends
\* with the final transcription-result followed by status idle.
C24_FormatFailureNotFatal ==
    fmtOutcome \in FormatFailures =>
        /\ fmtPc \in {"emit", "idle"} => pasted = Some(result_text)
        /\ TailEnded =>
               /\ Len(uiEvents) = 2 * tails
               /\ FinalEvent.event = "transcription-result"
               /\ FinalEvent.is_final
               /\ uiEvents[2 * tails] = StatusIdle

C24_Witness ==
    /\ TailEnded
    /\ fmtOutcome = <<"Err", "initialize">>
    /\ snippets # <<>>
    /\ pasted = Some(<<"A", "b">>)
    /\ Len(uiEvents) = 2

\* C25: the text handed to the injector is the transcript after the
\* optional formatting step with the snippets applied to it, whether
\* formatting was disabled, succeeded or failed.
C25_SnippetsAlwaysApplied ==
    pasted # None =>
        pasted = Some(apply_snippets(TextAfterFormatting, snippets))

\* C26: the text of the final transcription-result event of a session is
\* the text that was handed to the injector for that session.
C26_FinalEventTextIsPastedText ==
    TailEnded => Some(FinalEvent.text) = pasted

\* ------------------------------------- properties of the shortcut store
Parses(raw) == parse_shortcut(raw).kind = "Ok"

Canonical(raw) == format_shortcut(parse_shortcut(raw).value)

\* The tokens of a string that name no modifier.
KeyTokensOf(raw) ==
    LET NamesNoModifier(token) == ModifierOf(token) = None
    IN  IF normalize_shortcut(raw) = <<>> THEN <<>>
        ELSE SelectSeq(Split(normalize_shortcut(raw)), NamesNoModifier)

\* The place of a token in the order format_shortcut writes: 0 for a
\* modifier under another name than the one written.
PlaceOf(token) ==
    CASE token = <<"fn">>    -> 1
      [] token = <<"ctrl">>  -> 2
      [] token = <<"shift">> -> 3
      [] token = <<"alt">>   -> 4
      [] token = <<"meta">>  -> 5
      [] ModifierOf(token) = None -> 6
      [] OTHER -> 0

\* The tokens of the string are written as format_shortcut writes them:
\* the modifiers under their own names, each once, in order, the key last.
InCanonicalOrder(raw) ==
    LET tokens == Split(normalize_shortcut(raw))
    IN  /\ \A i \in 1..Len(tokens) : PlaceOf(tokens[i]) # 0
        /\ \A i \in 1..(Len(tokens) - 1) : PlaceOf(tokens[i]) < PlaceOf(tokens[i + 1])

\* C27: a call of set_shortcuts in which one of the three strings does not
\* parse, or push-to-talk and hands-free are equal after normalisation,
\* returns an error and leaves the stored shortcuts as they were; a call
\* that succeeds stores the canonical form of all three; the stored
\* push-to-talk and hands-free shortcuts are different at all times.
C27_SetShortcutsAllOrNothing ==
    /\ shortcuts.push_to_talk # shortcuts.hands_free_toggle
    /\ last_set # None =>
           LET call == last_set[1]
               rejected ==
                   \/ ~Parses(call.push_to_talk)
                   \/ ~Parses(call.hands_free_toggle)
                   \/ ~Parses(call.command_mode)
                   \/ normalize_shortcut(call.push_to_talk)
                          = normalize_shortcut(call.hands_free_toggle)
           IN  /\ rejected =>
                      call.result.kind = "Err" /\ shortcuts = call.before
               /\ call.result.kind = "Ok" =>
                      /\ call.result.value = shortcuts
                      /\ shortcuts = StoredShortcuts(Canonical(call.push_to_talk),
                                                     Canonical(call.hands_free_toggle),
                                                     Canonical(call.command_mode))
                      /\ \A s \in {shortcuts.push_to_talk, shortcuts.hands_free_toggle,
                                   shortcuts.command_mode} :
                             Parses(s) /\ Canonical(s) = s
               /\ call.result.kind = "Err" => shortcuts = call.before

C27_Witness ==
    /\ last_set # None
    /\ last_set[1].result = ErrMessage(OneKeyOnly)
    /\ last_set[1].command_mode = <<"ctrl", "+", "k", "+", "m">>
    /\ last_set[1].push_to_talk = <<"fn">>
    /\ shortcuts = StoredShortcuts(<<"ctrl", "+", "k">>, <<"fn", "+", "space">>,
                                   <<"fn", "+", "ctrl", "+", "shift", "+", "space">>)

\* C28 as stated: whenever parse succeeds, formatting the parsed spec gives
\* the normalised string; and a string with more than one key is rejected.
C28_FormatParseIsNormalise ==
    parse_result # None =>
        /\ parse_result[1].kind = "Ok" =>
               format_shortcut(parse_result[1].value) = normalize_shortcut(raw_shortcut)
        /\ Len(KeyTokensOf(raw_shortcut)) > 1 => parse_result[1].kind = "Err"

\* C28: whenever parse succeeds, formatting the parsed spec gives the
\* canonical form of the string: it parses back to the same spec, normalise
\* leaves it alone, and it is the normalised string exactly when the
\* tokens of the string are written in canonical names and order; a string
\* with more than one key is rejected.
C28_FormatParseIsCanonical ==
    parse_result # None =>
        /\ parse_result[1].kind = "Ok" =>
               LET formatted == format_shortcut(parse_result[1].value)
               IN  /\ parse_shortcut(formatted) = parse_result[1]
                   /\ normalize_shortcut(formatted) = formatted
                   /\ (formatted = normalize_shortcut(raw_shortcut))
                          <=> InCanonicalOrder(raw_shortcut)
        /\ Len(KeyTokensOf(raw_shortcut)) > 1 => parse_result[1].kind = "Err"

C28_Witness ==
    /\ raw_shortcut = <<" ", "K", " ", "+", "shift", "+", "Ctrl">>
    /\ parse_result = Some(Ok(ShortcutSpec({"ctrl", "shift"}, Some(<<"k">>))))

\* ------------------------------------------- properties of the model commands
\* C29: delete_model(m) returns an error and deletes nothing when m is
\* the active model, and whatever the interleaving with set_active_model,
\* an artifact that is removed is never that of the model that is active.
C29_ActiveModelNeverDeleted ==
    [][/\ (delPc = "idle" /\ delPc' = "idle" /\ delModel' = active_transcription_model
            /\ delResult' # delResult)
           => (delResult' = CannotDeleteActive /\ finalFile' = finalFile)
       /\ \A m \in Models :
              (finalFile[m] /\ ~finalFile'[m]) => m # active_transcription_model]_vars

\* ------------------------------------------ properties of the preprocessor
AlreadyTarget == format = AudioFormat(TargetSampleRate, 1)

SameSign(x, y) == (x < 0 => y <= 0) /\ (x > 0 => y >= 0) /\ (x = 0 => y = 0)

\* C30 as stated: audio that is already 16 kHz mono comes back as it went
\* in, whatever the samples; an empty buffer comes back empty.
C30_TargetFormatPassesThrough ==
    prepared # None =>
        /\ AlreadyTarget => prepared[1] = audio_data
        /\ audio_data = <<>> => prepared[1] = <<>>

\* C30: audio that is already 16 kHz mono comes back with the length it
\* had; it comes back as it went in when its peak is 0 or at least 0.20;
\* a quieter buffer comes back amplified, its peak at 0.35 or at 80 times
\* what it was, whichever is less, and no sample changing sign; an empty
\* buffer comes back empty.
C30_TargetFormatPassesThroughUnlessQuiet ==
    prepared # None =>
        /\ AlreadyTarget =>
               /\ Len(prepared[1]) = Len(audio_data)
               /\ (Peak(audio_data) = 0 \/ Peak(audio_data) >= QuietPeak)
                      => prepared[1] = audio_data
               /\ (0 < Peak(audio_data) /\ Peak(audio_data) < QuietPeak) =>
                      /\ prepared[1] # audio_data
                      /\ Peak(prepared[1]) =
                             (IF MaxGain * Peak(audio_data) < TargetPeak
                              THEN MaxGain * Peak(audio_data) ELSE TargetPeak)
                      /\ \A i \in 1..Len(audio_data) :
                             SameSign(audio_data[i], prepared[1][i])
        /\ audio_data = <<>> => prepared[1] = <<>>

C30_Witness ==
    /\ AlreadyTarget
    /\ audio_data = <<2, -1, 0>>
    /\ prepared = Some(<<160, -80, 0>>)

\* The buffer the gain stage is handed: the input downmixed and resampled.
BeforeGain ==
    resample_linear(downmix_to_mono(audio_data, format.channels),
                    format.sample_rate, TargetSampleRate)

ValidFormat == format.sample_rate # 0 /\ format.channels # 0

Contains(text, part) ==
    \E i \in 0..(Len(text) - Len(part)) : SubSeq(text, i + 1, i + Len(part)) = part

\* What a snippet puts in the text, in lower case.
Expanded(snippet) == to_lowercase(ExpandVariables(snippet.expansion))

\* No snippet's expansion contains the trigger of another snippet of the list.
NoExpansionHoldsAnotherTrigger ==
    \A i, j \in 1..Len(snippet_list) :
        (i # j /\ snippet_list[j].trigger # <<>>) =>
            ~Contains(Expanded(snippet_list[i]), to_lowercase(snippet_list[j].trigger))

\* Every snippet that can match puts something in the text, and nothing it
\* puts there is a character of a trigger, its own included.
NoExpansionTouchesATrigger ==
    \A i, j \in 1..Len(snippet_list) :
        snippet_list[i].trigger # <<>> =>
            /\ Expanded(snippet_list[i]) # <<>>
            /\ \A k \in 1..Len(Expanded(snippet_list[i])),
                  l \in 1..Len(snippet_list[j].trigger) :
                   Expanded(snippet_list[i])[k] # LowerChar(snippet_list[j].trigger[l])

HasNonBlank(text) == \E i \in 1..Len(text) : text[i] # " "

PassesThrough ==
    tp_mode = "Disabled" \/ WordCount(trim(raw_text)) < min_words_for_processing

\* C33 as stated: an input with a non-blank character comes back as a
\* success with a non-empty text, which is the trimmed input, the model
\* not asked, when the mode is Disabled or the words are too few; an empty
\* input comes back as the EmptyInput error.
C33_NonBlankInputSucceeds ==
    processed # None =>
        /\ HasNonBlank(raw_text) =>
               /\ processed[1].kind = "Ok"
               /\ processed[1].value.formatted_text # <<>>
               /\ PassesThrough =>
                      /\ processed[1].value.formatted_text = trim(raw_text)
                      /\ ~llm_called
        /\ raw_text = <<>> => processed[1] = ErrMessage(EmptyInput)

\* C33: an input with a non-blank character comes back as the trimmed
\* input, the model not asked, when the mode is Disabled or the words are
\* too few; otherwise the model is asked, and the call comes back as the
\* LlmError error if the model fails and as a success with a non-empty
\* text if it answers, the trimmed input when the trimmed answer is empty;
\* an input with no non-blank character comes back as EmptyInput.
C33_SucceedsUnlessModelFails ==
    processed # None =>
        /\ (HasNonBlank(raw_text) /\ PassesThrough) =>
               /\ processed[1].kind = "Ok"
               /\ processed[1].value.formatted_text = trim(raw_text)
               /\ ~llm_called
        /\ (HasNonBlank(raw_text) /\ ~PassesThrough) =>
               /\ llm_called
               /\ \/ processed[1] = ErrMessage(LlmError)
                  \/ /\ processed[1].kind = "Ok"
                     /\ HasNonBlank(processed[1].value.formatted_text)
                     /\ processed[1].value.formatted_text
                            \in {trim(raw_text), <<"A", ".">>, <<"A", " ", "b", ".">>}
        /\ ~HasNonBlank(raw_text) =>
               processed[1] = ErrMessage(EmptyInput) /\ ~llm_called

C33_Witness ==
    /\ raw_text = <<" ", "a", " ", "b", " ">>
    /\ tp_mode = "Smart"
    /\ min_words_for_processing = 1
    /\ llm_called
    /\ processed = Some(Ok(ProcessingResult(<<"a", " ", "b">>, raw_text, "Smart")))

\* ------------------------------------- the injector's deliveries and target
\* C34: an injection of text that is not blank reaches the target by one
\* delivery, the scripted paste, the paste chord or direct typing: never
\* by two of them, and by one once the injector has returned.
C34_ExactlyOneDelivery ==
    /\ Len(deliveries) <= 1
    /\ \A k \in 1..Len(deliveries) : deliveries[k][1] \in {"script", "chord", "typed"}
    /\ (injPc \in {"restore", "done"} /\ ~TrimIsEmpty(injText)) => Len(deliveries) = 1

\* the script failed on macOS and the chord alone delivered the text
C34_Witness ==
    /\ injPc = "done"
    /\ platform = "macos"
    /\ paste_target = Some("editor")
    /\ injText = <<" ", "a">>
    /\ deliveries = <<<<"chord", "editor">>>>

\* C36: the injector moves the focus only to the target captured at the start
\* of the same session; after a failed or rejected capture it moves the focus
\* nowhere, whatever an earlier session remembered.
C36_FocusOnlyToThisSessionsTarget ==
    [][(injPc' # injPc /\ foreground' # foreground)
          => session_target = Some(foreground')]_vars

\* The name in the loaded-model slot is the model the stored adapter was
\* initialised for, whenever no task holds the locks.
SlotsAgree ==
    slot_lock = 0 => (loaded_slot # None => adapter_slot = loaded_slot)

\* A stop task's transcribe call ran on an adapter initialised for the model
\* that was active when the task read it.
FinalOnTarget ==
    \A i \in SlotTasks :
        transcribed[i] # None => transcribed[i][1][1] = transcribed[i][1][2]

\* The partial loop's transcribe call ran on an adapter initialised for the
\* model that was active when the loop read it.
PartialOnTarget == partial_on # None => partial_on[1][1] = partial_on[1][2]

\* The step on which task i returns with the given result.
ReturnsWith(i, r) == slot_result[i] # r /\ slot_result'[i] = r

C37_MuteRestoredOnEveryPath ==
    mutePc = "ended" => system_muted = muted_before

\* C38: when the hotkey machine holds is_recording_active, its start has
\* returned and every spawned stop task has finished, the orchestrator's slot
\* holds an open input stream.
C38_RecordingActiveHasStream ==
    (/\ is_recording_active
     /\ startPc["hotkey"] = "idle"
     /\ \A i \in StopIds : stopPc[i] = "idle")
        => (stream # 0 /\ stream \in openStreams)

\* The sessions whose partial-transcription loop has not left its while.
LoopsRunning == {s \in Sids : partPc[s] \in {"sleep", "decode"}}

\* A loop's partial decode works on the buffer of the loop's own session.
PartialsOfOwnSession ==
    \A s \in Sids : partPc[s] = "decode" => partSnap[s] = s

\* C39: at most one partial-transcription loop is running, and a loop issues
\* partial decodes only for the session that spawned it.
C39_OnePartialLoop ==
    Cardinality(LoopsRunning) <= 1 /\ PartialsOfOwnSession

\* The store holds the device and the shortcut that were set, and the session
\* count that update_analytics saved (no other caller changes the count).
ReflectsEveryUpdate(store) ==
    /\ store.input_device = Some(new_device)
    /\ store.push_to_talk = new_shortcut
    /\ store.sessions_count = call_store["update_analytics"].sessions_count

\* C40: once update_analytics, set_shortcuts and set_input_device_id have all
\* returned, the store in memory and the one on disk hold all three updates.
C40_NoLostUpdate ==
    (\A c \in StoreCallers : callPc[c] = "done")
        => ReflectsEveryUpdate(STORE) /\ ReflectsEveryUpdate(store_file)

====
